---- MODULE Spec2Model ----
(***************************************************************************)
(* indexamajig: the per-image pipeline (process_image), the main program   *)
(* around it, the dispatcher that feeds it, and the prediction geometry    *)
(* (locate_peak / check_reflection).                                       *)
(***************************************************************************)
EXTENDS Integers, Sequences, FiniteSets, TLC

\* ---------------------------------------------------------------- bounds
NWorkers == 2
NImages == 2
MaxPeaks == 1
MaxCrystals == 1
MaxIndex == 2       \* reflections with |h| + |k| + |l| <= MaxIndex
MaxCoord == 2       \* reciprocal axis lengths run over 1..MaxCoord
MaxK == 4           \* predicted wavenumbers run over 1..MaxK
MaxAxis == 2        \* direct axis lengths run over 1..MaxAxis
MaxWait == 3        \* wait_for_file runs over -2..MaxWait
MaxResidual == 2    \* residuals run over 0..MaxResidual
MaxIterations == 2  \* simplex iterations (1000 in do_pr_refine)
MaxAccounts == 3    \* size of the account table (MAX_ACCOUNTS, 256)
MaxThreads == 3     \* threads asked of refine_all
MaxRefined == 3     \* crystals given to refine_all
SAMPLES == 50       \* samples of do_integral
Infinity == 1073741824
NotANumber == -1073741824

\* ------------------------------------------------------ program constants
SerialStart == 1
INDEXING_NONE == 0
RadiusStep == 5000      \* get_scale(GPARAM_R), 0.0005e9 m^-1
MaxShift == 100         \* residual_f: a vector element above 100
MaxRadius == 50000000   \* residual_f: 5e9 m^-1
MinRadius == 1          \* residual_f: 0.0000001e9 m^-1
MaxRotation == 100      \* check_angle_shifts: 5 degrees

Workers == 1..NWorkers
Serials == SerialStart..(SerialStart + NImages - 1)

VARIABLES
    cfg,          \* command line / files: what main() finds
    mainpc,       \* position of main()
    exit_code,    \* main()'s return value (-1: still running)
    sandbox_r,    \* create_sandbox()'s return value
    terminate,    \* cooperative cancellation flag
    serial,       \* next serial number to assign
    assigned,     \* per worker: serial handed to process_image (0: none)
    pc,           \* per worker: position in process_image
    image,        \* per worker: struct image of the image in hand
    totals,       \* sb_shared->n_processed, n_hits, n_hadcrystals, n_crystals
    totals_lock,  \* sb_shared->totals_lock: 0 or the worker holding it
    buffer,       \* reorder buffer: serial -> completed chunk
    nextOut,      \* next serial the sink expects
    stream,       \* the output stream: a sequence of lines
    outOfOrder,   \* history: a chunk was written with a lower serial pending
    lateWrite,    \* history: a chunk was written while terminate was set
    writeFailed,  \* history: write_chunk has returned nonzero
    cell,         \* a crystal's reciprocal cell
    reflections,  \* the crystal's reflection list: indices -> reflection
    updated,      \* history: the list has been through update_predictions
    uc,           \* a UnitCell in hand (NULL: none)
    uc0,          \* the UnitCell it was made from: cell file, template
    tfn,          \* what was done to get uc from uc0, with what, and err
    fw,           \* file_wait_open_read: arguments, locals, the file
    pr,           \* do_pr_refine: arguments, locals, the crystal
    tm,           \* a worker's time accounts, heartbeats and last_task
    fin,          \* finalisation: images that got there, totals as read
    tp,           \* refine_all: its queue and the threads of its pool
    prt           \* calculate_partialities: crystal, image, reflection

vars == << cfg, mainpc, exit_code, sandbox_r, terminate, serial, assigned, pc,
           image, totals, totals_lock, buffer, nextOut, stream, outOfOrder,
           lateWrite, writeFailed, cell, reflections, updated, uc, uc0,
           tfn, fw, pr, tm, fin, tp, prt >>

runvars == << cfg, mainpc, exit_code, sandbox_r, terminate, serial, assigned,
              pc, image, totals, totals_lock, buffer, nextOut, stream,
              outOfOrder, lateWrite, writeFailed >>
predvars == << cell, reflections, updated >>
cellvars == << uc, uc0, tfn >>
waitvars == << fw >>
prvars == << pr >>
tmvars == << tm >>
finvars == << fin >>
tpvars == << tp >>
prtvars == << prt >>

mainvars == << mainpc, exit_code, sandbox_r >>
workvars == << assigned, pc, image, totals, totals_lock, buffer, outOfOrder,
               lateWrite, writeFailed >>
dispvars == << terminate, serial, nextOut, stream >>

\* ------------------------------------------------------------ pixel data
\* The pixel arrays image.dp are represented by the set of filters that have
\* been applied to the data as read from the file.
RawData == {}
NoData == {"unset"}

filter_median(dp) == dp \cup {"median"}
filter_noise(dp) == dp \cup {"noise"}

\* The copy, or NULL when there is no memory for it
NullSnapshot == {"null"}
backup_image_data(dp) == { dp, NullSnapshot }

restore_image_data_skip(dp, bu) == dp
restore_image_data(dp, bu) == bu

\* ------------------------------------------------------------ the image
NoImage == [ serial |-> 0, dp |-> NoData, prefilter |-> NoData, npeaks |-> 0,
             n_crystals |-> 0, hit |-> 0, indexed_by |-> INDEXING_NONE,
             intdata |-> NoData, written |-> FALSE ]

image_init_cookie(cookie, s) == [ NoImage EXCEPT !.serial = cookie ]
image_init(cookie, s) == [ NoImage EXCEPT !.serial = s ]

\* ------------------------------------------------------------ the stream
\* Of a chunk's lines, the model keeps the two markers, the serial number,
\* indexed_by and one line per crystal block.
Line(t, v) == [ t |-> t, v |-> v ]

CrystalLines(n) == [ i \in 1..n |-> Line("crystal", i) ]

ChunkLines(img) ==
    << Line("begin", 0), Line("serial", img.serial),
       Line("indexed_by", img.indexed_by) >>
    \o CrystalLines(img.n_crystals)
    \o << Line("end", 0) >>

Empty == << >>
Skip == << Line("skip", 0) >>

\* The dispatcher learns that a worker is done with a serial; a serial that
\* produced no chunk is passed over when the stream is written.
Completed(buf, s) == IF buf[s] = Empty THEN [ buf EXCEPT ![s] = Skip ] ELSE buf

\* ------------------------------------------------------------ prediction
\* Positions are exact rationals num/den, den >= 0; den = 0 is what a
\* division by zero leaves (an infinity, or a NaN when num = 0 too).
Ratio(n, d) == IF d < 0 THEN [ num |-> -n, den |-> -d ]
               ELSE [ num |-> n, den |-> d ]

\* An uninitialised double
Indeterminate == [ num |-> 0, den |-> 0 ]

\* q < 0.0
IsNegative(q) == q.den > 0 /\ q.num < 0

\* q >= n; an infinity, whatever its sign, is caught by one of the two tests
NotLess(q, n) == IF q.den > 0 THEN q.num >= n * q.den ELSE q.num # 0

Det3(a, b, c) ==
    a[1] * (b[2] * c[3] - b[3] * c[2])
    - b[1] * (a[2] * c[3] - a[3] * c[2])
    + c[1] * (a[2] * b[3] - a[3] * b[2])

\* The detector: one upright panel left of the beam, one turned by a right
\* angle on the other side, and a gap between them.
PanelA == [ cnx |-> -2, cny |-> -2, clen_res |-> 2,
            fsx |-> 1, fsy |-> 0, fsz |-> 0,
            ssx |-> 0, ssy |-> 1, ssz |-> 0, w |-> 2, h |-> 4 ]
PanelB == [ cnx |-> 2, cny |-> -2, clen_res |-> 2,
            fsx |-> 0, fsy |-> 1, fsz |-> 0,
            ssx |-> -1, ssy |-> 0, ssz |-> 0, w |-> 4, h |-> 2 ]
Detector == << PanelA, PanelB >>

\* (sin(tta)cos(phi), sin(tta)sin(phi), cos(tta)) up to a positive factor
ScatteringDirection(x, y, z, k) ==
    IF x = 0 /\ y = 0 /\ k + z = 0 THEN << 0, 0, 1 >> ELSE << x, y, k + z >>

OnPanelNoWidth(fs, ss, p) ==
    IF IsNegative(fs) THEN 0
    ELSE IF IsNegative(ss) THEN 0
    ELSE IF NotLess(ss, p.h) THEN 0
    ELSE 1
\* Now, is this on this panel?
OnPanel(fs, ss, p) ==
    IF IsNegative(fs) THEN 0
    ELSE IF NotLess(fs, p.w) THEN 0
    ELSE IF IsNegative(ss) THEN 0
    ELSE IF NotLess(ss, p.h) THEN 0
    ELSE 1

\* M v = t is solved by Cramer's rule; fs = v1/v0, ss = v2/v0.  If the solver
\* fails, the position is not written.
locate_peak_on_panel(x, y, z, k, p) ==
    LET t == ScatteringDirection(x, y, z, k)
        cn == << p.cnx, p.cny, p.clen_res >>
        fsv == << p.fsx, p.fsy, p.fsz >>
        ssv == << p.ssx, p.ssy, p.ssz >>
        v0 == Det3(t, fsv, ssv)
        fs == Ratio(Det3(cn, t, ssv), v0)
        ss == Ratio(Det3(cn, fsv, t), v0)
    IN  IF Det3(cn, fsv, ssv) = 0
        THEN [ ret |-> 0, fs |-> Indeterminate, ss |-> Indeterminate ]
        ELSE [ ret |-> OnPanel(fs, ss, p), fs |-> fs, ss |-> ss ]

\* The first panel the peak is on, or -1 (panels are counted from 0)
RECURSIVE locate_peak_from(_, _, _, _, _, _)
locate_peak_from(i, x, y, z, k, det) ==
    IF i >= Len(det) THEN [ p |-> -1 ]
    ELSE LET r == locate_peak_on_panel(x, y, z, k, det[i + 1])
         IN  IF r.ret # 0 THEN [ p |-> i, fs |-> r.fs, ss |-> r.ss ]
             ELSE locate_peak_from(i + 1, x, y, z, k, det)

locate_peak(x, y, z, k, det) == locate_peak_from(0, x, y, z, k, det)

Indices == (-MaxIndex)..MaxIndex
Abs(n) == IF n < 0 THEN -n ELSE n

\* The indices that the three loops and the resolution cut let through
Hkls ==
    { hkl \in Indices \X Indices \X Indices :
        Abs(hkl[1]) + Abs(hkl[2]) + Abs(hkl[3]) <= MaxIndex }

NoRefl == [ panel |-> -1 ]

\* The position and panel part of check_reflection; kpred is the predicted
\* wavenumber the partiality calculation arrives at.
check_reflection(det, hkl, xl, yl, zl, kpred, updateme) ==
    IF updateme = NoRefl
    THEN IF hkl = << 0, 0, 0 >> THEN NoRefl
         ELSE LET r == locate_peak(xl, yl, zl, kpred, det)
              IN  IF r.p = -1 THEN NoRefl
                  ELSE [ panel |-> r.p, fs |-> r.fs, ss |-> r.ss ]
    ELSE LET r == locate_peak_on_panel(xl, yl, zl, kpred,
                                       det[updateme.panel + 1])
         IN  [ panel |-> updateme.panel, fs |-> r.fs, ss |-> r.ss ]

\* Get the coordinates of the reciprocal lattice point
LatticePoint(c, hkl, i) ==
    hkl[1] * c.as[i] + hkl[2] * c.bs[i] + hkl[3] * c.cs[i]

\* Tetragonal cells with their axes along the laboratory axes
Cells ==
    { [ as |-> << a, 0, 0 >>, bs |-> << 0, a, 0 >>, cs |-> << 0, 0, c >> ] :
      a \in 1..MaxCoord, c \in 1..MaxCoord }

Kpreds == 1..MaxK

NoReflections == [ hkl \in Hkls |-> NoRefl ]

predict_to_res(c, kpred) ==
    [ hkl \in Hkls |->
        check_reflection(Detector, hkl, LatticePoint(c, hkl, 1),
                         LatticePoint(c, hkl, 2), LatticePoint(c, hkl, 3),
                         kpred, NoRefl) ]

update_predictions(c, kpred, list) ==
    [ hkl \in Hkls |->
        IF list[hkl] = NoRefl THEN NoRefl
        ELSE check_reflection(Detector, hkl, LatticePoint(c, hkl, 1),
                              LatticePoint(c, hkl, 2), LatticePoint(c, hkl, 3),
                              kpred, list[hkl]) ]

\* ------------------------------------------------------------ unit cells
\* A matrix of doubles or of Rationals is kept exactly: nine integer
\* numerators n over one positive denominator d, in lowest terms.
Idx3 == 1..3
Nxt(i) == (i % 3) + 1

RECURSIVE Gcd(_, _)
Gcd(a, b) == IF b = 0 THEN Abs(a) ELSE Gcd(Abs(b), Abs(a) % Abs(b))

GcdRow(r) == Gcd(r[1], Gcd(r[2], r[3]))

rtnl_mtx(n, d) ==
    LET g == Gcd(d, Gcd(GcdRow(n[1]), Gcd(GcdRow(n[2]), GcdRow(n[3]))))
        s == IF d < 0 THEN -g ELSE g
    IN  [ n |-> [ i \in Idx3 |-> [ j \in Idx3 |-> n[i][j] \div s ] ],
          d |-> d \div s ]

rtnl_mtx_from_intmat(m) == [ n |-> m, d |-> 1 ]

intmat_identity == << << 1, 0, 0 >>, << 0, 1, 0 >>, << 0, 0, 1 >> >>

\* gsl_blas_dgemm: a times b
MatMul(a, b) ==
    [ i \in Idx3 |-> [ j \in Idx3 |->
        a[i][1] * b[1][j] + a[i][2] * b[2][j] + a[i][3] * b[3][j] ] ]

Transpose(a) == [ i \in Idx3 |-> [ j \in Idx3 |-> a[j][i] ] ]

Negated(a) == [ i \in Idx3 |-> [ j \in Idx3 |-> -a[i][j] ] ]

\* gsl_linalg_LU_decomp and gsl_linalg_LU_invert: the inverse of m, by
\* cofactors; defined for Det3 of the rows nonzero
LU_invert(m) ==
    LET det == Det3(m.n[1], m.n[2], m.n[3])
        cof == [ i \in Idx3 |-> [ j \in Idx3 |->
                   m.n[Nxt(i)][Nxt(j)] * m.n[Nxt(Nxt(i))][Nxt(Nxt(j))]
                   - m.n[Nxt(i)][Nxt(Nxt(j))] * m.n[Nxt(Nxt(i))][Nxt(j)] ] ]
        adj == [ i \in Idx3 |-> [ j \in Idx3 |-> m.d * cof[j][i] ] ]
    IN  rtnl_mtx(adj, det)

\* A UnitCell in the Cartesian representation: ax holds the rows a, b, c.
\* NullCell is the NULL pointer.
NullCell == [ cen |-> "NULL" ]

Centerings == { "P", "A", "B", "C", "I", "F", "R", "H" }
LatticeTypes == { "L_TRICLINIC", "L_MONOCLINIC", "L_ORTHORHOMBIC",
                  "L_TETRAGONAL", "L_RHOMBOHEDRAL", "L_HEXAGONAL",
                  "L_CUBIC" }
UniqueAxes == { "a", "b", "c", "*" }

\* Reciprocal axes from direct axes and back: the transposed inverse
cell_invert(ax) == LET inv == LU_invert(ax)
                   IN  [ n |-> Transpose(inv.n), d |-> inv.d ]

cell_get_cartesian(c) == c.ax
cell_get_reciprocal(c) == cell_invert(c.ax)

cell_new_from_reciprocal_axes(rx) ==
    [ ax |-> cell_invert(rx), cen |-> "P", lt |-> "L_TRICLINIC", ua |-> "?" ]

\* m times the rows of the cell; everything else is copied
cell_transform_gsl_direct(in, m) ==
    [ in EXCEPT !.ax = rtnl_mtx(MatMul(m.n, in.ax.n), m.d * in.ax.d) ]

\* Works out two vectors, prints them, and answers 'A'
determine_centering(m, cen) == "A"

cell_transform_rational(c, m) ==
    LET out == cell_transform_gsl_direct(c, m)
        ncen == determine_centering(m, c.cen)
    IN  IF ncen = "*" THEN NullCell ELSE [ out EXCEPT !.cen = ncen ]

cell_transform_intmat(c, m) ==
    cell_transform_rational(c, rtnl_mtx_from_intmat(m))

\* A singular matrix cannot be inverted: NULL
cell_transform_rational_forward(c, m) ==
    IF Det3(m.n[1], m.n[2], m.n[3]) = 0 THEN NullCell
    ELSE cell_transform_gsl_direct(c, m)

cell_transform_rational_inverse(c, m) ==
    IF Det3(m.n[1], m.n[2], m.n[3]) = 0 THEN NullCell
    ELSE cell_transform_gsl_direct(c, LU_invert(m))

cell_transform_intmat_inverse(c, m) ==
    cell_transform_rational_inverse(c, rtnl_mtx_from_intmat(m))

\* The matrix C that turns the primitive cell into the centered one, its
\* inverse Ci, and what the primitive cell is; NULL for a centering the
\* function has no case for
NoTransformation == [ C |-> "NULL" ]

centering_transformation(in) ==
    CASE in.cen \in { "P", "R" } ->
           [ C |-> intmat_identity,
             Ci |-> rtnl_mtx_from_intmat(intmat_identity),
             cen |-> in.cen, lt |-> in.lt, ua |-> in.ua ]
      [] in.cen = "I" ->
           [ C |-> << << 0, 1, 1 >>, << 1, 0, 1 >>, << 1, 1, 0 >> >>,
             Ci |-> [ n |-> << << -1, 1, 1 >>, << 1, -1, 1 >>,
                               << 1, 1, -1 >> >>, d |-> 2 ],
             cen |-> IF in.lt = "L_CUBIC" THEN "R" ELSE "P",
             lt |-> IF in.lt = "L_CUBIC" THEN "L_RHOMBOHEDRAL"
                    ELSE "L_TRICLINIC",
             ua |-> "*" ]
      [] in.cen = "F" ->
           [ C |-> << << -1, 1, 1 >>, << 1, -1, 1 >>, << 1, 1, -1 >> >>,
             Ci |-> [ n |-> << << 0, 1, 1 >>, << 1, 0, 1 >>,
                               << 1, 1, 0 >> >>, d |-> 2 ],
             cen |-> IF in.lt = "L_CUBIC" THEN "R" ELSE "P",
             lt |-> IF in.lt = "L_CUBIC" THEN "L_RHOMBOHEDRAL"
                    ELSE "L_TRICLINIC",
             ua |-> "*" ]
      [] in.cen = "H" /\ in.lt = "L_HEXAGONAL" /\ in.ua = "c" ->
           [ C |-> << << 1, 0, 1 >>, << -1, 1, 1 >>, << 0, -1, 1 >> >>,
             Ci |-> [ n |-> << << 2, -1, -1 >>, << 1, 1, -2 >>,
                               << 1, 1, 1 >> >>, d |-> 3 ],
             cen |-> "R", lt |-> "L_RHOMBOHEDRAL", ua |-> "*" ]
      [] in.cen = "A" ->
           [ C |-> << << 1, 0, 0 >>, << 0, 1, 1 >>, << 0, -1, 1 >> >>,
             Ci |-> [ n |-> << << 2, 0, 0 >>, << 0, 1, -1 >>,
                               << 0, 1, 1 >> >>, d |-> 2 ],
             cen |-> "P",
             lt |-> IF in.lt = "L_ORTHORHOMBIC" THEN "L_MONOCLINIC"
                    ELSE "L_TRICLINIC",
             ua |-> IF in.lt = "L_ORTHORHOMBIC" THEN "a" ELSE "*" ]
      [] in.cen = "B" ->
           [ C |-> << << 1, 0, 1 >>, << 0, 1, 0 >>, << -1, 0, 1 >> >>,
             Ci |-> [ n |-> << << 1, 0, -1 >>, << 0, 2, 0 >>,
                               << 1, 0, 1 >> >>, d |-> 2 ],
             cen |-> "P",
             lt |-> IF in.lt = "L_ORTHORHOMBIC" THEN "L_MONOCLINIC"
                    ELSE "L_TRICLINIC",
             ua |-> IF in.lt = "L_ORTHORHOMBIC" THEN "b" ELSE "*" ]
      [] in.cen = "C" ->
           [ C |-> << << 1, 1, 0 >>, << -1, 1, 0 >>, << 0, 0, 1 >> >>,
             Ci |-> [ n |-> << << 1, -1, 0 >>, << 1, 1, 0 >>,
                               << 0, 0, 2 >> >>, d |-> 2 ],
             cen |-> "P",
             lt |-> IF in.lt = "L_ORTHORHOMBIC" THEN "L_MONOCLINIC"
                    ELSE "L_TRICLINIC",
             ua |-> IF in.lt = "L_ORTHORHOMBIC" THEN "c" ELSE "*" ]
      [] OTHER -> NoTransformation

uncenter_cell_forward(in) ==
    LET t == centering_transformation(in)
    IN  IF t = NoTransformation THEN NullCell
        ELSE LET out == cell_transform_intmat(in, t.C)
             IN  IF out = NullCell THEN NullCell
                 ELSE [ out EXCEPT !.lt = t.lt, !.cen = t.cen, !.ua = t.ua ]

\* The primitive version of the cell, or NULL
uncenter_cell(in) ==
    LET t == centering_transformation(in)
    IN  IF t = NoTransformation THEN NullCell
        ELSE LET out == cell_transform_rational(in, t.Ci)
             IN  IF out = NullCell THEN NullCell
                 ELSE [ out EXCEPT !.lt = t.lt, !.cen = t.cen, !.ua = t.ua ]

\* "a cross b" dot "c" > 0.0
right_handed_vec_left(a, b, c) == Det3(a, b, c) < 0
right_handed_vec(a, b, c) == Det3(a, b, c) > 0

\* The handedness of the direct axes (the denominator is positive)
right_handed(c) == Det3(c.ax.n[1], c.ax.n[2], c.ax.n[3]) > 0

Dot(u, v) == u[1] * v[1] + u[2] * v[2] + u[3] * v[3]

\* The eight inequalities on alpha, beta, gamma say that the three angles are
\* those of a proper trihedron; for angles taken from three vectors that is
\* 1 - cos^2(al) - cos^2(be) - cos^2(ga) + 2 cos(al) cos(be) cos(ga) > 0,
\* here multiplied by the squared lengths, and a vector of length zero makes
\* an angle NaN.
cell_is_sensible(c) ==
    LET a == c.ax.n[1]
        b == c.ax.n[2]
        cc == c.ax.n[3]
        aa == Dot(a, a)
        bb == Dot(b, b)
        gg == Dot(cc, cc)
        ab == Dot(a, b)
        ac == Dot(a, cc)
        bc == Dot(b, cc)
    IN  /\ aa > 0 /\ bb > 0 /\ gg > 0
        /\ aa * bb * gg - aa * bc * bc - bb * ac * ac - gg * ab * ab
              + 2 * ab * ac * bc > 0

bravais_lattice(c) ==
    CASE c.cen = "P" -> TRUE
      [] c.cen \in { "A", "B", "C" } ->
           IF c.lt = "L_MONOCLINIC"
           THEN \/ c.ua = "a" /\ c.cen # "A"
                \/ c.ua = "b" /\ c.cen # "B"
                \/ c.ua = "c" /\ c.cen # "C"
           ELSE c.lt = "L_ORTHORHOMBIC"
      [] c.cen = "I" -> c.lt \in { "L_MONOCLINIC", "L_ORTHORHOMBIC",
                                    "L_TETRAGONAL", "L_CUBIC" }
      [] c.cen = "F" -> c.lt \in { "L_ORTHORHOMBIC", "L_CUBIC" }
      [] c.cen = "H" -> c.ua = "c" /\ c.lt = "L_HEXAGONAL"
      [] c.cen = "R" -> c.lt = "L_RHOMBOHEDRAL"
      [] OTHER -> FALSE

\* 0 for a cell that is fine; of several complaints the last one made counts
validate_cell(c) ==
    IF /\ c.lt = "L_MONOCLINIC"
       /\ \/ c.cen = "A" /\ c.ua = "a"
          \/ c.cen = "B" /\ c.ua = "b"
          \/ c.cen = "C" /\ c.ua = "c"
    THEN 2
    ELSE IF ~right_handed(c) THEN 1
    ELSE IF ~bravais_lattice(c) THEN 1
    ELSE IF ~cell_is_sensible(c) THEN 2
    ELSE 0

forbidden_reflection(c, h, k, l) ==
    CASE c.cen \in { "P", "R" } -> FALSE
      [] c.cen = "A" -> (k + l) % 2 # 0
      [] c.cen = "B" -> (h + l) % 2 # 0
      [] c.cen = "C" -> (h + k) % 2 # 0
      [] c.cen = "I" -> (h + k + l) % 2 # 0
      [] c.cen = "F" ->
           (h + k) % 2 # 0 \/ (h + l) % 2 # 0 \/ (k + l) % 2 # 0
      [] c.cen = "H" -> (-h + k + l) % 3 # 0
      [] OTHER -> FALSE

NoOp == [ op |-> "none", m |-> intmat_identity, err |-> -1, tols |-> << >> ]

\* restoreReciprocalCell ends with makeRightHanded: a left-handed cell has
\* all its axes reversed
makeRightHanded(c) ==
    IF ~right_handed(c)
    THEN [ c EXCEPT !.ax = [ n |-> Negated(c.ax.n), d |-> c.ax.d ] ]
    ELSE c

\* run_pinkIndexer from the indexed lattice on: the cell of the crystal it
\* adds to the image, or NULL when it adds none
run_pinkIndexer(cellTemplate, indexedLattice) ==
    LET uc1 == makeRightHanded(cell_new_from_reciprocal_axes(indexedLattice))
        t == centering_transformation(cellTemplate)
        trans == cell_transform_intmat(uc1, t.C)
        new_cell_trans == [ trans EXCEPT !.lt = cellTemplate.lt,
                                         !.cen = cellTemplate.cen,
                                         !.ua = cellTemplate.ua ]
    IN  IF validate_cell(new_cell_trans) # 0 THEN NullCell
        ELSE new_cell_trans

\* The signs the three nested 'bit' loops give the coefficients: n1 *= b1
\* works on the value the round before left behind
SignPatterns ==
    { << -1, -1, -1 >>, << 1, 1, -1 >>, << -1, 1, 1 >>, << 1, 1, 1 >>,
      << 1, -1, -1 >> }

\* Candidate vectors without 'reduce': coefficients 0 or 1, at most one of
\* them 1
Candidates(rx) ==
    { [ na |-> s[1] * n[1], nb |-> s[2] * n[2], nc |-> s[3] * n[3],
        vec |-> [ x \in Idx3 |-> s[1] * n[1] * rx[1][x]
                                 + s[2] * n[2] * rx[2][x]
                                 + s[3] * n[3] * rx[3][x] ] ] :
      n \in { m \in (0..1) \X (0..1) \X (0..1) : m[1] + m[2] + m[3] <= 1 },
      s \in SignPatterns }

same_vector(a, b) == a.na = b.na /\ a.nb = b.nb /\ a.nc = b.nc

\* match_cell without 'reduce': the cells it can return.  Whether a vector
\* or an angle is within the tolerances is a comparison of floating-point
\* lengths and angles, which any candidate may pass or fail; the handedness
\* test is exact.  NULL when nothing fits.
match_cell(cell_in, template_in) ==
    LET t == centering_transformation(template_in)
        template == uncenter_cell(template_in)
        cell1 == uncenter_cell(cell_in)
    IN  IF template = NullCell \/ cell1 = NullCell THEN { NullCell }
        ELSE LET r == cell_get_reciprocal(cell1)
                 cand == Candidates(r.n)
                 new_cell(c0, c1, c2) ==
                     cell_new_from_reciprocal_axes(
                         [ n |-> << c0.vec, c1.vec, c2.vec >>, d |-> r.d ])
                 trans(c0, c1, c2) ==
                     cell_transform_intmat(new_cell(c0, c1, c2), t.C)
             IN  { NullCell } \cup
                 { [ trans(q[1], q[2], q[3]) EXCEPT !.lt = template_in.lt,
                                                    !.cen = template_in.cen,
                                                    !.ua = template_in.ua ] :
                   q \in { p \in cand \X cand \X cand :
                             /\ ~same_vector(p[1], p[2])
                             /\ ~same_vector(p[2], p[3])
                             /\ right_handed_vec(p[1].vec, p[2].vec,
                                                 p[3].vec) } }

\* match_cell with its tolerances, for cells whose axes lie along x, y and
\* z: there every length is a whole number over the cell's denominator and
\* every angle is 0, 90 or 180 degrees, so the arithmetic is exact.
modulus(v) == CHOOSE r \in 0..Dot(v, v) : r * r = Dot(v, v)

\* fabs(a - b) <= fabs(a) * percent / 100, for a = an/d and b = bn/d
within_tolerance(an, bn, percent) == 100 * Abs(an - bn) <= Abs(an) * percent

\* The eight rounds of the 'bit' loops, in order
SignRounds ==
    << << -1, -1, -1 >>, << 1, 1, -1 >>, << -1, 1, 1 >>, << 1, 1, 1 >>,
       << 1, -1, -1 >>, << 1, 1, -1 >>, << 1, 1, 1 >>, << 1, 1, 1 >> >>

\* n1l, n2l, n3l without 'reduce', in the order of the loops
CoefficientRounds ==
    << << 0, 0, 0 >>, << 0, 0, 1 >>, << 0, 1, 0 >>, << 1, 0, 0 >> >>

\* Every vector tried, in the order it is tried
TrialVectors(rx) ==
    [ t \in 1..(Len(CoefficientRounds) * Len(SignRounds)) |->
        LET n == CoefficientRounds[((t - 1) \div Len(SignRounds)) + 1]
            s == SignRounds[((t - 1) % Len(SignRounds)) + 1]
        IN  [ na |-> s[1] * n[1], nb |-> s[2] * n[2], nc |-> s[3] * n[3],
              vec |-> [ x \in Idx3 |-> s[1] * n[1] * rx[1][x]
                                       + s[2] * n[2] * rx[2][x]
                                       + s[3] * n[3] * rx[3][x] ] ] ]

\* cand[i]: the trial vectors whose length agrees with lengths[i]; td and rd
\* are the denominators of the template's and the cell's reciprocal axes
AxisCandidates(tx, td, all, rd, i, ltol) ==
    LET len == modulus(tx[i]) * rd
        fits(c) == within_tolerance(len, modulus(c.vec) * td, ltol)
        withfom(c) == [ na |-> c.na, nb |-> c.nb, nc |-> c.nc, vec |-> c.vec,
                        fom |-> Abs(len - modulus(c.vec) * td) ]
    IN  SelectSeq([ t \in 1..Len(all) |-> withfom(all[t]) ],
                  LAMBDA c : fits(c))

\* The angle between two vectors along the axes, in degrees; -1 is the NaN
\* that a vector of length zero gives
angle_between(u, v) ==
    IF Dot(u, u) = 0 \/ Dot(v, v) = 0 THEN -1
    ELSE IF Dot(u, v) = 0 THEN 90
    ELSE IF Dot(u, v) > 0 THEN 0 ELSE 180

\* fabs(ang - angle) > angtol, which is false for a NaN
AngleOff(u, v, angle, angtol) ==
    angle_between(u, v) # -1 /\ Abs(angle_between(u, v) - angle) > angtol

\* The index triples (i, j, k) that get as far as the comparison of fom3
\* with best_fom
Combinations(tx, c0, c1, c2, angtol) ==
    UNION {
      { << p[1], p[2], k >> :
        k \in { k \in 1..Len(c2) :
                  /\ ~same_vector(c1[p[2]], c2[k])
                  /\ ~AngleOff(c0[p[1]].vec, c2[k].vec,
                               angle_between(tx[1], tx[3]), angtol)
                  /\ ~AngleOff(c1[p[2]].vec, c2[k].vec,
                               angle_between(tx[2], tx[3]), angtol)
                  /\ right_handed_vec(c0[p[1]].vec, c1[p[2]].vec,
                                      c2[k].vec) } } :
      p \in { p \in (1..Len(c0)) \X (1..Len(c1)) :
                /\ ~same_vector(c0[p[1]], c1[p[2]])
                /\ ~AngleOff(c0[p[1]].vec, c1[p[2]].vec,
                             angle_between(tx[1], tx[2]), angtol) } }

\* fom3 for a combination that has no vector of length zero (one that has
\* is not right-handed): every angle kept is the template's, and what is
\* left is LWEIGHT times the sum of the three length errors
fom3(c0, c1, c2, q) == c0[q[1]].fom + c1[q[2]].fom + c2[q[3]].fom

Least(S) == CHOOSE x \in S : \A y \in S : x <= y

\* The first of the combinations in Q in the order of the loops
First(Q) ==
    LET i == Least({ q[1] : q \in Q })
        j == Least({ q[2] : q \in { p \in Q : p[1] = i } })
        k == Least({ q[3] : q \in { p \in Q : p[1] = i /\ p[2] = j } })
    IN  << i, j, k >>

\* The first combination the loops come to
first_combination(c0, c1, c2, Q) == First(Q)

\* if ( fom3 < best_fom ): the first of the combinations with the least fom3
best_combination(c0, c1, c2, Q) ==
    LET best_fom == Least({ fom3(c0, c1, c2, q) : q \in Q })
    IN  First({ q \in Q : fom3(c0, c1, c2, q) = best_fom })

Only(S) == CHOOSE x \in S : TRUE

\* The cell of the best of the combinations Q, or NULL when there is none
BestCell(c, Q, rd, t, template_in) ==
    IF Q = {} THEN NullCell
    ELSE LET q == best_combination(c[1], c[2], c[3], Q)
             new_cell == cell_new_from_reciprocal_axes(
                            [ n |-> << c[1][q[1]].vec, c[2][q[2]].vec,
                                       c[3][q[3]].vec >>,
                              d |-> rd ])
         IN  [ cell_transform_intmat(new_cell, t.C)
                 EXCEPT !.lt = template_in.lt,
                        !.cen = template_in.cen,
                        !.ua = template_in.ua ]

\* match_cell(cell_in, template_in, verbose, tols, 0)
match_cell_tols(cell_in, template_in, tols) ==
    LET t == centering_transformation(template_in)
        template == uncenter_cell(template_in)
        cell1 == uncenter_cell(cell_in)
    IN  IF template = NullCell \/ cell1 = NullCell THEN NullCell
        ELSE Only(
          { Only(
            { Only(
              { Only({ BestCell(c, Q, r.d, t, template_in) :
                       Q \in { Combinations(tr.n, c[1], c[2], c[3],
                                            tols[4]) } }) :
                c \in { [ i \in Idx3 |->
                            AxisCandidates(tr.n, tr.d, all, r.d, i,
                                           tols[i]) ] } }) :
              all \in { TrialVectors(r.n) } }) :
            tr \in { cell_get_reciprocal(template) },
            r \in { cell_get_reciprocal(cell1) } })

\* ------------------------------------------------------- post-refinement
\* The four refined parameters are whole numbers of the steps get_scale
\* gives them: angles in steps of 0.05 degrees, and with 100 m^-1 as the
\* unit of the profile radius and 0.001e-10 m as the unit of the wavelength.
GPARAM_ANG1 == "GPARAM_ANG1"
GPARAM_ANG2 == "GPARAM_ANG2"
GPARAM_R == "GPARAM_R"
GPARAM_WAVELENGTH == "GPARAM_WAVELENGTH"
GPARAM_EOL == "GPARAM_EOL"

get_scale(p) ==
    CASE p = GPARAM_ANG1 -> 1
      [] p = GPARAM_ANG2 -> 1
      [] p = GPARAM_R -> RadiusStep
      [] p = GPARAM_WAVELENGTH -> 1
      [] OTHER -> 0

\* rv is the list of parameters from the place a pointer into it points to;
\* i counts from 0 as in the code
get_actual_val(v, initial, rv, i) ==
    v[i + 1] * get_scale(rv[i + 1]) + initial[i + 1]

\* The cell's orientation: the rotations it has been given, in order.  A
\* rotation by nothing leaves the cell as it is.
rotate_cell_xy(orient, ang1, ang2) ==
    IF ang1 = 0 /\ ang2 = 0 THEN orient ELSE Append(orient, << ang1, ang2 >>)

\* The value the loop of apply_parameters leaves for parameter p
ParamOr(v, initial, rv, p, default) ==
    IF \E i \in 1..Len(v) : rv[i] = p
    THEN LET i == CHOOSE i \in 1..Len(v) :
                     /\ rv[i] = p
                     /\ \A j \in 1..Len(v) : rv[j] = p => j <= i
         IN  get_actual_val(v, initial, rv, i - 1)
    ELSE default

apply_parameters(v, initial, rv, cr) ==
    LET ang1 == ParamOr(v, initial, rv, GPARAM_ANG1, 0)
        ang2 == ParamOr(v, initial, rv, GPARAM_ANG2, 0)
        R == ParamOr(v, initial, rv, GPARAM_R, cr.R)
        lambda == ParamOr(v, initial, rv, GPARAM_WAVELENGTH, cr.lambda)
    IN  [ cr EXCEPT !.orient = rotate_cell_xy(@, ang1, ang2),
                    !.R = R, !.lambda = lambda ]

GSL_NAN == [ nan |-> TRUE, val |-> 0 ]
Finite(x) == [ nan |-> FALSE, val |-> x ]

\* residual_f.  out is what scale_one_crystal and residual make of the
\* trial crystal: whether it could be scaled, and its residual.
residual_f_unclamped(v, pv, out) ==
    IF \E i \in 1..Len(v) : v[i] > MaxShift THEN GSL_NAN
    ELSE IF ~out.ok THEN GSL_NAN
    ELSE Finite(out.res)

residual_f(v, pv, out) ==
    IF \E i \in 1..Len(v) : v[i] > MaxShift THEN GSL_NAN
    ELSE LET cr == apply_parameters(v, pv.initial, pv.rv, pv.cr)
         IN  IF Abs(cr.R) > MaxRadius THEN GSL_NAN
             ELSE IF Abs(cr.R) < MinRadius THEN GSL_NAN
             ELSE IF cr.lambda <= 0 THEN GSL_NAN
             ELSE IF ~out.ok THEN GSL_NAN
             ELSE Finite(out.res)

get_initial_param(cr, p) ==
    CASE p = GPARAM_ANG1 -> 0
      [] p = GPARAM_ANG2 -> 0
      [] p = GPARAM_R -> cr.R
      [] p = GPARAM_WAVELENGTH -> cr.lambda
      [] OTHER -> 0

\* The loop of check_angle_shifts: rv moves on, i stays 0
RECURSIVE angle_shifts(_, _, _)
angle_shifts(cur, initial, rv) ==
    IF rv[1] = GPARAM_EOL THEN 0
    ELSE (IF rv[1] = GPARAM_ANG1 \/ rv[1] = GPARAM_ANG2
          THEN Abs(get_actual_val(cur, initial, rv, 0)) ELSE 0)
         + angle_shifts(cur, initial, Tail(rv))

check_angle_shifts(cur, initial, rv) ==
    IF angle_shifts(cur, initial, rv) > MaxRotation THEN 1 ELSE 0

\* A symmetry operation list is a sequence of matrices on (h, k, l); NULL
\* is the empty sequence's stand-in
NoSymOpList == << >>
SymP1 == << intmat_identity >>
AmbTwofold ==
    << intmat_identity,
       << << 0, 1, 0 >>, << 1, 0, 0 >>, << 0, 0, -1 >> >> >>
AmbFourfold ==
    << intmat_identity,
       << << -1, 0, 0 >>, << 0, -1, 0 >>, << 0, 0, 1 >> >>,
       << << 0, 1, 0 >>, << 1, 0, 0 >>, << 0, 0, -1 >> >>,
       << << 0, -1, 0 >>, << -1, 0, 0 >>, << 0, 0, -1 >> >> >>

num_equivs(ops) == Len(ops)

get_equiv(ops, idx, hkl) ==
    [ i \in Idx3 |-> ops[idx + 1][i][1] * hkl[1] + ops[idx + 1][i][2] * hkl[2]
                     + ops[idx + 1][i][3] * hkl[3] ]

\* h, then k, then l as large as possible
Preferred(p, q) ==
    \/ p[1] > q[1]
    \/ p[1] = q[1] /\ p[2] > q[2]
    \/ p[1] = q[1] /\ p[2] = q[2] /\ p[3] >= q[3]

get_asymm(sym, hkl) ==
    LET eq == { get_equiv(sym, i, hkl) : i \in 0..(num_equivs(sym) - 1) }
    IN  CHOOSE p \in eq : \A q \in eq : Preferred(p, q)

reindex_reflections(input, amb, sym, idx) ==
    { [ hkl |-> get_asymm(sym, get_equiv(amb, idx, refl.hkl)),
        symm |-> get_equiv(amb, idx, refl.symm) ] : refl \in input }

reindex_cell(c, amb, idx) ==
    LET e(r) == get_equiv(amb, idx, [ j \in Idx3 |-> IF j = r THEN 1 ELSE 0 ])
    IN  [ r \in Idx3 |-> [ j \in Idx3 |->
            c[1][j] * e(r)[1] + c[2][j] * e(r)[2] + c[3][j] * e(r)[3] ] ]

\* full, the reference list, is known by what it makes of each indexing of
\* the crystal: whether the crystal can be scaled to it, and the residual
scale_one_crystal(cr, full) == IF full[cr.cell].ok THEN 0 ELSE 1
residual(cr, full) == full[cr.cell].res

RECURSIVE try_reindex_from(_, _, _, _, _, _)
try_reindex_from(idx, crin, residual_original, full, sym, amb) ==
    IF idx >= num_equivs(amb) THEN crin
    ELSE LET cr == [ crin EXCEPT
                       !.cell = reindex_cell(crin.cell, amb, idx),
                       !.refl = reindex_reflections(crin.refl, amb, sym,
                                                    idx) ]
         IN  IF scale_one_crystal(cr, full) # 0 THEN crin
             ELSE IF residual(cr, full) < residual_original
             THEN try_reindex_from(idx + 1, cr, residual(cr, full), full,
                                   sym, amb)
             ELSE try_reindex_from(idx + 1, crin, residual_original, full,
                                   sym, amb)

try_reindex(crin, full, sym, amb) ==
    IF sym = NoSymOpList \/ amb = NoSymOpList THEN crin
    ELSE IF scale_one_crystal(crin, full) # 0 THEN crin
    ELSE try_reindex_from(0, crin, residual(crin, full), full, sym, amb)

\* ---------------------------------------------------------------- Init
Configs ==
    [ inputOk : BOOLEAN, geomOk : BOOLEAN, tolOk : BOOLEAN, cellOk : BOOLEAN,
      setupOk : BOOLEAN, streamOk : BOOLEAN,
      median_filter : {0, 1}, noisefilter : {0, 1},
      min_peaks : 0..MaxPeaks, stream_nonhits : {0, 1} ]

InitRun ==
    /\ mainpc = "args"
    /\ exit_code = -1
    /\ sandbox_r = 0
    /\ terminate = FALSE
    /\ serial = SerialStart
    /\ assigned = [ w \in Workers |-> 0 ]
    /\ pc = [ w \in Workers |-> "idle" ]
    /\ image = [ w \in Workers |-> NoImage ]
    /\ totals = [ n_processed |-> 0, n_hits |-> 0, n_hadcrystals |-> 0,
                  n_crystals |-> 0 ]
    /\ totals_lock = 0
    /\ buffer = [ s \in Serials |-> Empty ]
    /\ nextOut = SerialStart
    /\ stream = << >>
    /\ outOfOrder = FALSE
    /\ lateWrite = FALSE
    /\ writeFailed = FALSE

\* No file is being waited for
NotWaiting ==
    [ wait_for_file |-> 0, file_wait_time |-> 0, read_retry_done |-> 0,
      at |-> "idle", exists |-> FALSE, appeared |-> FALSE,
      stats |-> 0, sleeps |-> 0, retries |-> 0 ]

InitWaitIdle == fw = NotWaiting

\* No crystal is being refined
NotRefining ==
    [ at |-> "idle", cr |-> << >>, cr0 |-> << >>, full |-> << >>,
      sym |-> << >>, amb |-> << >>, rv |-> << >>, initial |-> << >>,
      x |-> << >>, n_iter |-> 0, status |-> "", applied |-> FALSE ]

InitPrIdle == pr = NotRefining

\* No accounts (taccs is NULL: timing is off), no heartbeat yet
NoAccounts ==
    [ accs |-> << >>, booked |-> << >>, cur_acc |-> "NULL",
      toomany |-> FALSE, ub |-> FALSE ]
NotTimed == [ taccs |-> NoAccounts, pings |-> 0, last_task |-> "none" ]

InitTmIdle == tm = NotTimed

\* Nothing has got to the finalisation, nothing has been read
NotFinalising ==
    [ reached |-> 0,
      reg |-> [ w \in Workers |->
                  [ n_processed |-> 0, n_hits |-> 0, n_hadcrystals |-> 0,
                    n_crystals |-> 0 ] ] ]

InitFinIdle == fin = NotFinalising

\* refine_all's queue and pool, and the pool at rest
Threads == 1..MaxThreads
CrystalIndices == 0..(MaxRefined - 1)

NoTask == [ crystal |-> -1, serial |-> -1 ]

\* qargs and the call of run_threads in refine_all
refine_all(n_crystals, nthreads_in) ==
    LET nthreads == IF n_crystals < nthreads_in THEN n_crystals
                    ELSE nthreads_in
    IN  [ n_crystals |-> n_crystals, n_started |-> 0, n_done |-> 0,
          nthreads |-> nthreads, max |-> n_crystals, given |-> 0,
          lock |-> 0,
          th |-> [ t \in Threads |->
                     [ at |-> IF t <= nthreads THEN "idle" ELSE "off",
                       task |-> NoTask, tmp |-> 0 ] ],
          handed |-> [ i \in CrystalIndices |-> 0 ],
          refined |-> [ i \in CrystalIndices |-> 0 ],
          oob |-> FALSE, returned |-> FALSE ]

InitTpIdle == tp = [ refine_all(0, 1) EXCEPT !.returned = TRUE ]

NoPartialities ==
    [ at |-> "none", pmodel |-> "PMODEL_UNITY",
      cr |-> [ asx |-> 0, asz |-> 0, R |-> 0, m |-> 0,
               image |-> [ serial |-> 0, k |-> 0,
                           spectrum |-> [ kcen |-> 0, w |-> 0 ] ] ],
      refl |-> [ h |-> 0, exerr |-> 0, partiality |-> 0, lorentz |-> 0,
                 set |-> FALSE ] ]
InitPrtIdle == prt = NoPartialities

\* Nothing has been done to a cell yet
InitCellIdle ==
    /\ uc0 = [ ax |-> rtnl_mtx_from_intmat(intmat_identity), cen |-> "P",
               lt |-> "L_TRICLINIC", ua |-> "?" ]
    /\ uc = uc0
    /\ tfn = NoOp

\* While the images are processed, the crystal of the prediction part is idle
InitIdle ==
    /\ cell = [ as |-> << 1, 0, 0 >>, bs |-> << 0, 1, 0 >>,
                 cs |-> << 0, 0, 1 >> ]
    /\ reflections = NoReflections
    /\ updated = FALSE

\* The whole program is run with the two filter options at their defaults;
\* the stage-by-stage specification tries every value of them.
Init ==
    /\ cfg \in Configs /\ cfg.median_filter = 0 /\ cfg.noisefilter = 0
    /\ InitRun /\ InitIdle /\ InitCellIdle /\ InitWaitIdle /\ InitPrIdle /\ InitTmIdle /\ InitFinIdle
    /\ InitTpIdle /\ InitPrtIdle

InitStages ==
    /\ cfg \in Configs
    /\ InitRun /\ InitIdle /\ InitCellIdle /\ InitWaitIdle /\ InitPrIdle /\ InitTmIdle /\ InitFinIdle
    /\ InitTpIdle /\ InitPrtIdle

\* ---------------------------------------------------------- time accounts
\* A TimeAccounts holds the table of the accounts used so far (accs, with
\* n_accs its length), for each of them whether any time has been booked to
\* it (booked, in the place of sec and nsec), and the current account.
\* toomany records that find_account has found the table full.
TACC_NOTHING == "TACC_NOTHING"

time_accounts_init ==
    [ accs |-> << >>, booked |-> << >>, cur_acc |-> TACC_NOTHING,
      toomany |-> FALSE, ub |-> FALSE ]

\* Index of acc in the table, from 0, or n_accs when it is not there
Position(accs, acc) ==
    IF \E i \in 1..Len(accs.accs) : accs.accs[i] = acc
    THEN (CHOOSE i \in 1..Len(accs.accs) : accs.accs[i] = acc) - 1
    ELSE Len(accs.accs)

\* A store to accs->accs[i] with i = MAX_ACCOUNTS is outside the array: ub
find_account_unchecked(accs, acc) ==
    LET i == Position(accs, acc)
    IN  IF i < Len(accs.accs) THEN [ i |-> i, accs |-> accs ]
        ELSE IF i >= MaxAccounts
        THEN [ i |-> i, accs |-> [ accs EXCEPT !.ub = TRUE ] ]
        ELSE [ i |-> i,
               accs |-> [ accs EXCEPT !.accs = Append(@, acc),
                                      !.booked = Append(@, FALSE) ] ]

find_account(accs, acc) ==
    LET i == Position(accs, acc)
    IN  IF i < Len(accs.accs) THEN [ i |-> i, accs |-> accs ]
        ELSE IF i = MaxAccounts
        THEN [ i |-> MaxAccounts, accs |-> [ accs EXCEPT !.toomany = TRUE ] ]
        ELSE [ i |-> i,
               accs |-> [ accs EXCEPT !.accs = Append(@, acc),
                                      !.booked = Append(@, FALSE) ] ]

time_accounts_set_kept(accs, new_acc) == accs

time_accounts_set(accs, new_acc) ==
    IF accs = NoAccounts THEN accs
    ELSE LET f == IF accs.cur_acc # TACC_NOTHING
                  THEN find_account(accs, accs.cur_acc)
                  ELSE [ i |-> 0, accs |-> accs ]
             a == IF accs.cur_acc # TACC_NOTHING /\ f.i # MaxAccounts
                     /\ ~f.accs.ub
                  THEN [ f.accs EXCEPT !.booked[f.i + 1] = TRUE ]
                  ELSE f.accs
         IN  [ a EXCEPT !.cur_acc = new_acc ]

\* What a worker keeps next to the image: its accounts, its heartbeat
\* sb_shared->pings[cookie], and last_task
time_accounts_set_task(t, acc, task, pings) ==
    [ t EXCEPT !.taccs = time_accounts_set(@, acc),
               !.last_task = task,
               !.pings = @ + pings ]

\* The first lines of each stage of process_image.  index_pattern_3 is
\* handed the heartbeat and may move it.
StageEntry(stage, t) ==
    CASE stage = "filter" ->
           { time_accounts_set_task(t, "TACC_FILTER", "image filter", 1) }
      [] stage = "resrange" ->
           { time_accounts_set_task(t, "TACC_RESRANGE", "resolution range",
                                    1) }
      [] stage = "peaksearch" ->
           { time_accounts_set_task(t, "TACC_PEAKSEARCH", "peaksearch", 1) }
      [] stage = "indexing" ->
           { time_accounts_set_task(t, "TACC_INDEXING", "indexing", n)
             : n \in 0..1 }
      [] stage = "predparams" ->
           { time_accounts_set_task(t, "TACC_PREDPARAMS",
                                    "prediction params", 0) }
      [] stage = "integration" ->
           { time_accounts_set_task(t, "TACC_INTEGRATION", "integration",
                                    1) }
      [] stage = "streamwrite" ->
           { time_accounts_set_task(t, "TACC_WRITESTREAM", "stream write",
                                    1) }
      [] stage = "out" ->
           { time_accounts_set_task(t, "TACC_TOTALS",
                                    "process_image finalisation", 1) }
      [] OTHER -> { t }

\* file_wait_open_read as far as the accounts go: how far it got
WaitFile(t) == time_accounts_set_task(t, "TACC_WAITFILE", "wait for file", 1)
OpenFile(t) ==
    time_accounts_set_task(WaitFile(t), "TACC_HDF5OPEN", "open file", 1)
ReadFile(t) ==
    time_accounts_set_task(OpenFile(t), "TACC_HDF5READ", "read file", 1)

\* ---------------------------------------------------------------- main()
Fatal == mainpc' = "exit" /\ exit_code' = 1 /\ UNCHANGED sandbox_r

Proceed(next) == mainpc' = next /\ UNCHANGED << exit_code, sandbox_r >>

geometry_loaded_unchecked(c) == TRUE
geometry_loaded(c) == c.geomOk

tolerance_parsed(c) == c.tolOk

cell_loaded(c) == c.cellOk

\* Minimal information, input file, peak detection method, process count
MainCheckArgs ==
    /\ mainpc = "args"
    /\ IF cfg.inputOk THEN Proceed("geometry") ELSE Fatal
    /\ UNCHANGED << cfg, workvars, dispvars >>

MainLoadGeometry ==
    /\ mainpc = "geometry"
    /\ IF geometry_loaded(cfg) THEN Proceed("tolerance") ELSE Fatal
    /\ UNCHANGED << cfg, workvars, dispvars >>

MainParseTolerance ==
    /\ mainpc = "tolerance"
    /\ IF tolerance_parsed(cfg) THEN Proceed("cell") ELSE Fatal
    /\ UNCHANGED << cfg, workvars, dispvars >>

MainLoadCell ==
    /\ mainpc = "cell"
    /\ IF cell_loaded(cfg) THEN Proceed("setup") ELSE Fatal
    /\ UNCHANGED << cfg, workvars, dispvars >>

\* Spectrum, integration diagnostics, temporary folder, indexing system
MainSetupIndexing ==
    /\ mainpc = "setup"
    /\ IF cfg.setupOk THEN Proceed("openstream") ELSE Fatal
    /\ UNCHANGED << cfg, workvars, dispvars >>

MainOpenStream ==
    /\ mainpc = "openstream"
    /\ IF cfg.streamOk THEN Proceed("sandbox") ELSE Fatal
    /\ UNCHANGED << cfg, workvars, dispvars >>

ExitCode(r) == IF r # 0 THEN 0 ELSE 1

MainExit ==
    /\ mainpc = "cleanup"
    /\ mainpc' = "exit"
    /\ exit_code' = ExitCode(sandbox_r)
    /\ UNCHANGED << cfg, sandbox_r, workvars, dispvars >>

\* ------------------------------------------------- create_sandbox()
AllIdle == \A w \in Workers : pc[w] = "idle"

Dequeue(w) ==
    /\ mainpc = "sandbox"
    /\ ~terminate
    /\ serial \in Serials
    /\ serial < nextOut + NWorkers
    /\ pc[w] = "idle"
    /\ assigned' = [ assigned EXCEPT ![w] = serial ]
    /\ image' = [ image EXCEPT ![w] = image_init(w, serial) ]
    /\ pc' = [ pc EXCEPT ![w] = "acquire" ]
    /\ serial' = serial + 1
    /\ UNCHANGED << cfg, mainvars, terminate, totals, totals_lock, buffer,
                    nextOut, stream, outOfOrder, lateWrite, writeFailed >>

Flush ==
    /\ mainpc = "sandbox"
    /\ nextOut < serial
    /\ buffer[nextOut] # Empty
    /\ stream' = IF buffer[nextOut] = Skip THEN stream
                 ELSE stream \o buffer[nextOut]
    /\ nextOut' = nextOut + 1
    /\ UNCHANGED << cfg, mainvars, workvars, terminate, serial >>

Terminate ==
    /\ mainpc = "sandbox"
    /\ ~terminate
    /\ terminate' = TRUE
    /\ UNCHANGED << cfg, mainvars, workvars, serial, nextOut, stream >>

SandboxReturn ==
    /\ mainpc = "sandbox"
    /\ terminate \/ serial \notin Serials
    /\ AllIdle
    /\ nextOut = serial
    /\ sandbox_r' = totals.n_processed
    /\ mainpc' = "cleanup"
    /\ UNCHANGED << cfg, exit_code, workvars, dispvars >>


\* ------------------------------------------------- process_image()
\* Each stage is an operator from the image to the set of places the code can
\* be next: [pc, img], with pc = "return" for a return from process_image.
At(p, img) == [ pc |-> p, img |-> img ]

\* Stage 1: unpack_msgpack_data / file_wait_open_read
acquire_stage(img) ==
    { At("filter", [ img EXCEPT !.dp = RawData ]), At("return", img) }

Filtered(c, dp) ==
    LET m == IF c.median_filter > 0 THEN filter_median(dp) ELSE dp
    IN  IF c.noisefilter # 0 THEN filter_noise(m) ELSE m

\* Stage 2: snapshot, then the filters
filter_stage(c, img) ==
    { At("resrange", [ img EXCEPT !.prefilter = bu,
                                  !.dp = Filtered(c, img.dp) ])
      : bu \in backup_image_data(img.dp) }

\* Stage 3: mark_resolution_range_as_bad touches the bad-pixel mask only
resolution_stage(img) == { At("peaksearch", img) }

\* Stage 4: whichever peak search is configured leaves a peak list
peaksearch_stage(img) ==
    { At("restore", [ img EXCEPT !.npeaks = n ]) : n \in 0..MaxPeaks }

\* The snapshot is put back, then chdir(tmpdir).  A NULL snapshot is
\* dereferenced: the worker process dies there, which ends the image as a
\* return does.
restore_stage(img) ==
    LET r == [ img EXCEPT !.dp = restore_image_data(img.dp, img.prefilter),
                          !.prefilter = NoData ]
    IN  IF img.prefilter = NullSnapshot THEN { At("return", img) }
        ELSE { At("hitcheck", r), At("return", r) }

hitcheck_stage_unstreamed(c, img) ==
    IF img.npeaks < c.min_peaks
    THEN { At("return", img), At("out", [ img EXCEPT !.hit = 0 ]) }
    ELSE { At("indexing", [ img EXCEPT !.hit = 1 ]) }

is_nonhit_off_by_one(npeaks, min_peaks) == npeaks < min_peaks - 1
is_nonhit(npeaks, min_peaks) == npeaks < min_peaks

hitcheck_stage(c, img) ==
    IF is_nonhit(img.npeaks, c.min_peaks)
    THEN { At("return", img),
           At(IF c.stream_nonhits # 0 THEN "streamwrite" ELSE "out",
              [ img EXCEPT !.hit = 0 ]) }
    ELSE { At("indexing", [ img EXCEPT !.hit = 1 ]) }

\* Stage 5: index_pattern_3 leaves zero or more crystals, then chdir(rn)
indexing_stage(img) ==
    UNION { LET r == [ img EXCEPT !.n_crystals = n,
                                  !.indexed_by = IF n = 0 THEN INDEXING_NONE
                                                 ELSE 1 ]
            IN  { At("predparams", r), At("return", r) }
            : n \in 0..MaxCrystals }

prediction_params_stage(img) == { At("integration", img) }

\* Stage 7: integrate_all_5 reads the pixel data once per crystal
integration_stage(img) ==
    { At("streamwrite", [ img EXCEPT !.intdata = IF img.n_crystals = 0
                                                 THEN NoData ELSE img.dp ]) }

LocalPcs == { "acquire", "filter", "resrange", "peaksearch", "restore",
              "hitcheck", "indexing", "predparams", "integration" }

StageSucc(c, st) ==
    CASE st.pc = "acquire" -> acquire_stage(st.img)
      [] st.pc = "filter" -> filter_stage(c, st.img)
      [] st.pc = "resrange" -> resolution_stage(st.img)
      [] st.pc = "peaksearch" -> peaksearch_stage(st.img)
      [] st.pc = "restore" -> restore_stage(st.img)
      [] st.pc = "hitcheck" -> hitcheck_stage(c, st.img)
      [] st.pc = "indexing" -> indexing_stage(st.img)
      [] st.pc = "predparams" -> prediction_params_stage(st.img)
      [] st.pc = "integration" -> integration_stage(st.img)

\* Stages 1-7 touch nothing that is shared between workers
RECURSIVE RunLocal(_, _)
RunLocal(c, st) ==
    IF st.pc \in LocalPcs
    THEN UNION { RunLocal(c, n) : n \in StageSucc(c, st) }
    ELSE { st }

\* process_image returns: the worker is free again and the dispatcher is told
Return(w) ==
    /\ pc' = [ pc EXCEPT ![w] = "idle" ]
    /\ image' = [ image EXCEPT ![w] = NoImage ]
    /\ assigned' = [ assigned EXCEPT ![w] = 0 ]
    /\ buffer' = Completed(buffer, assigned[w])

Advance(w, st) ==
    /\ IF st.pc = "return"
       THEN Return(w)
       ELSE /\ pc' = [ pc EXCEPT ![w] = st.pc ]
            /\ image' = [ image EXCEPT ![w] = st.img ]
            /\ UNCHANGED << assigned, buffer >>
    /\ UNCHANGED << cfg, mainvars, dispvars, totals, totals_lock, outOfOrder,
                    lateWrite, writeFailed >>

Here(w) == At(pc[w], image[w])

Acquire(w) ==
    pc[w] = "acquire" /\ \E st \in StageSucc(cfg, Here(w)) : Advance(w, st)
Filter(w) ==
    pc[w] = "filter" /\ \E st \in StageSucc(cfg, Here(w)) : Advance(w, st)
ResolutionRange(w) ==
    pc[w] = "resrange" /\ \E st \in StageSucc(cfg, Here(w)) : Advance(w, st)
PeakSearch(w) ==
    pc[w] = "peaksearch" /\ \E st \in StageSucc(cfg, Here(w)) : Advance(w, st)
Restore(w) ==
    pc[w] = "restore" /\ \E st \in StageSucc(cfg, Here(w)) : Advance(w, st)
HitCheck(w) ==
    pc[w] = "hitcheck" /\ \E st \in StageSucc(cfg, Here(w)) : Advance(w, st)
Indexing(w) ==
    pc[w] = "indexing" /\ \E st \in StageSucc(cfg, Here(w)) : Advance(w, st)
PredictionParams(w) ==
    pc[w] = "predparams" /\ \E st \in StageSucc(cfg, Here(w)) : Advance(w, st)
Integration(w) ==
    pc[w] = "integration" /\ \E st \in StageSucc(cfg, Here(w)) : Advance(w, st)

Pending(s) == { t \in Serials : nextOut <= t /\ t < s /\ buffer[t] = Empty }

WriteChunkCutShort(buf, s, img) ==
    [ buf EXCEPT
        ![s] = SubSeq(ChunkLines(img), 1, Len(ChunkLines(img)) - 1) ]
\* write_chunk: the worker's completed chunk goes to the dispatcher
WriteChunk(buf, s, img) == [ buf EXCEPT ![s] = ChunkLines(img) ]

\* The totals; good is the number of crystals whose user flag is still zero
Counted(tot, img, good) ==
    [ n_processed |-> tot.n_processed + 1,
      n_hits |-> tot.n_hits + img.hit,
      n_hadcrystals |-> tot.n_hadcrystals + (IF good > 0 THEN 1 ELSE 0),
      n_crystals |-> tot.n_crystals + good ]

StreamWritePolled(w) ==
    /\ pc[w] = "streamwrite"
    /\ IF terminate
       THEN /\ Return(w)
            /\ UNCHANGED << outOfOrder, lateWrite, writeFailed >>
       ELSE /\ \E ret \in {0, 1} :
                  IF ret = 0
                  THEN /\ buffer' = WriteChunk(buffer, assigned[w], image[w])
                       /\ image' = [ image EXCEPT ![w].written = TRUE ]
                       /\ outOfOrder' =
                             (outOfOrder \/ Pending(assigned[w]) # {})
                       /\ UNCHANGED << lateWrite, writeFailed >>
                  ELSE /\ writeFailed' = TRUE
                       /\ UNCHANGED << buffer, image, outOfOrder, lateWrite >>
            /\ pc' = [ pc EXCEPT ![w] = "out" ]
            /\ UNCHANGED assigned
    /\ UNCHANGED << cfg, mainvars, dispvars, totals, totals_lock >>
\* Stage 8: write_chunk; a failure is reported and nothing else
StreamWrite(w) ==
    /\ pc[w] = "streamwrite"
    /\ \E ret \in {0, 1} :
          IF ret = 0
          THEN /\ buffer' = WriteChunk(buffer, assigned[w], image[w])
               /\ image' = [ image EXCEPT ![w].written = TRUE ]
               /\ outOfOrder' = (outOfOrder \/ Pending(assigned[w]) # {})
               /\ lateWrite' = (lateWrite \/ terminate)
               /\ UNCHANGED writeFailed
          ELSE /\ writeFailed' = TRUE
               /\ UNCHANGED << buffer, image, outOfOrder, lateWrite >>
    /\ pc' = [ pc EXCEPT ![w] = "out" ]
    /\ UNCHANGED << cfg, mainvars, dispvars, assigned, totals, totals_lock >>

\* out: pthread_mutex_lock(&sb_shared->totals_lock)
Out(w) ==
    /\ pc[w] = "out"
    /\ totals_lock = 0
    /\ totals_lock' = w
    /\ pc' = [ pc EXCEPT ![w] = "count" ]
    /\ UNCHANGED << cfg, mainvars, dispvars, assigned, image, totals, buffer,
                    outOfOrder, lateWrite, writeFailed >>

\* The totals, the unlock, the frees and the return
Count(w) ==
    /\ pc[w] = "count"
    /\ totals_lock = w
    /\ \E good \in 0..image[w].n_crystals :
          totals' = Counted(totals, image[w], good)
    /\ totals_lock' = 0
    /\ Return(w)
    /\ UNCHANGED << cfg, mainvars, dispvars, outOfOrder, lateWrite,
                    writeFailed >>

\* One call of process_image, from its first line to its return
ProcessImage(w) ==
    /\ pc[w] = "acquire"
    /\ totals_lock = 0
    /\ \E st \in RunLocal(cfg, Here(w)), ret \in {0, 1} :
          LET wrote == st.pc = "streamwrite" /\ ret = 0
              counts == st.pc \in { "streamwrite", "out" }
              buf == IF wrote THEN WriteChunk(buffer, assigned[w], st.img)
                     ELSE buffer
          IN  /\ buffer' = Completed(buf, assigned[w])
              /\ outOfOrder' =
                    (outOfOrder \/ (wrote /\ Pending(assigned[w]) # {}))
              /\ lateWrite' = (lateWrite \/ (wrote /\ terminate))
              /\ writeFailed' =
                    (writeFailed \/ (st.pc = "streamwrite" /\ ret # 0))
              /\ IF counts
                 THEN \E good \in 0..st.img.n_crystals :
                         totals' = Counted(totals, st.img, good)
                 ELSE UNCHANGED totals
    /\ pc' = [ pc EXCEPT ![w] = "idle" ]
    /\ image' = [ image EXCEPT ![w] = NoImage ]
    /\ assigned' = [ assigned EXCEPT ![w] = 0 ]
    /\ UNCHANGED << cfg, mainvars, dispvars, totals_lock >>

Main ==
    \/ MainCheckArgs \/ MainLoadGeometry \/ MainParseTolerance \/ MainLoadCell
    \/ MainSetupIndexing \/ MainOpenStream \/ MainExit

\* The whole program, any number of workers
Next ==
    /\ \/ Main
       \/ \E w \in Workers : Dequeue(w)
       \/ Flush \/ Terminate \/ SandboxReturn
       \/ \E w \in Workers : ProcessImage(w)
    /\ UNCHANGED << predvars, cellvars, waitvars, prvars, tmvars, finvars,
                    tpvars, prtvars >>

Spec == Init /\ [][Next]_vars

\* One worker, stage by stage
Solo == CHOOSE w \in Workers : \A v \in Workers : w <= v

NextStages ==
    /\ \/ Main
       \/ Dequeue(Solo) \/ Flush \/ Terminate \/ SandboxReturn
       \/ Acquire(Solo) \/ Filter(Solo) \/ ResolutionRange(Solo)
       \/ PeakSearch(Solo) \/ Restore(Solo) \/ HitCheck(Solo)
       \/ Indexing(Solo) \/ PredictionParams(Solo) \/ Integration(Solo)
       \/ StreamWrite(Solo) \/ Out(Solo) \/ Count(Solo)
    /\ UNCHANGED << predvars, cellvars, waitvars, prvars, tmvars, finvars,
                    tpvars, prtvars >>

SpecStages == InitStages /\ [][NextStages]_vars

\* ------------------------------------------- process_image with the clock
\* One worker, stage by stage, with its time accounts and its heartbeat.
\* The chunks stay where write_chunk leaves them: the sink is not run.
InitTimed ==
    /\ cfg \in Configs
    /\ cfg.inputOk /\ cfg.geomOk /\ cfg.tolOk /\ cfg.cellOk /\ cfg.setupOk
    /\ cfg.streamOk /\ cfg.median_filter = 0 /\ cfg.noisefilter = 0
    /\ InitRun /\ InitIdle /\ InitCellIdle /\ InitWaitIdle /\ InitPrIdle
    /\ InitFinIdle /\ InitTpIdle /\ InitPrtIdle
    /\ \E a \in { NoAccounts, time_accounts_init } :
          tm = [ NotTimed EXCEPT !.taccs = a ]

Overrun(t) == t.taccs # NoAccounts /\ t.taccs.ub

\* A store past the end of the table lands in whatever follows it
Overwritten(w) ==
    /\ image' = [ image EXCEPT ![w].intdata = {"overwritten"} ]
    /\ UNCHANGED << cfg, mainvars, dispvars, assigned, pc, totals,
                    totals_lock, buffer, outOfOrder, lateWrite, writeFailed >>

\* Where file_wait_open_read can have got to when this is the result
AcquireEntry(st, t) ==
    { t } \cup (IF st.pc = "return"
                THEN { WaitFile(t), OpenFile(t), ReadFile(t) }
                ELSE { ReadFile(t) })

TimedAcquire(w) ==
    /\ pc[w] = "acquire"
    /\ \E st \in StageSucc(cfg, Here(w)) : \E t \in AcquireEntry(st, tm) :
          /\ tm' = t
          /\ IF Overrun(t) THEN Overwritten(w) ELSE Advance(w, st)

TimedFilter(w) ==
    \E t \in StageEntry(pc[w], tm) :
       tm' = t /\ IF Overrun(t) THEN Overwritten(w) ELSE Filter(w)
TimedResolutionRange(w) ==
    \E t \in StageEntry(pc[w], tm) :
       tm' = t /\ IF Overrun(t) THEN Overwritten(w) ELSE ResolutionRange(w)
TimedPeakSearch(w) ==
    \E t \in StageEntry(pc[w], tm) :
       tm' = t /\ IF Overrun(t) THEN Overwritten(w) ELSE PeakSearch(w)
TimedRestore(w) ==
    \E t \in StageEntry(pc[w], tm) :
       tm' = t /\ IF Overrun(t) THEN Overwritten(w) ELSE Restore(w)
TimedHitCheck(w) ==
    \E t \in StageEntry(pc[w], tm) :
       tm' = t /\ IF Overrun(t) THEN Overwritten(w) ELSE HitCheck(w)
TimedIndexing(w) ==
    \E t \in StageEntry(pc[w], tm) :
       tm' = t /\ IF Overrun(t) THEN Overwritten(w) ELSE Indexing(w)
TimedPredictionParams(w) ==
    \E t \in StageEntry(pc[w], tm) :
       tm' = t /\ IF Overrun(t) THEN Overwritten(w) ELSE PredictionParams(w)
TimedIntegration(w) ==
    \E t \in StageEntry(pc[w], tm) :
       tm' = t /\ IF Overrun(t) THEN Overwritten(w) ELSE Integration(w)
TimedStreamWrite(w) ==
    \E t \in StageEntry(pc[w], tm) :
       tm' = t /\ IF Overrun(t) THEN Overwritten(w) ELSE StreamWrite(w)
TimedOut(w) ==
    \E t \in StageEntry(pc[w], tm) :
       tm' = t /\ IF Overrun(t) THEN Overwritten(w) ELSE Out(w)

\* pings counts the heartbeats of the call of process_image in progress
TimedDequeue(w) == Dequeue(w) /\ tm' = [ tm EXCEPT !.pings = 0 ]

Untimed(A) == A /\ UNCHANGED tm

NextTimed ==
    /\ \/ Untimed(Main)
       \/ TimedDequeue(Solo) \/ Untimed(SandboxReturn)
       \/ TimedAcquire(Solo) \/ TimedFilter(Solo)
       \/ TimedResolutionRange(Solo) \/ TimedPeakSearch(Solo)
       \/ TimedRestore(Solo) \/ TimedHitCheck(Solo) \/ TimedIndexing(Solo)
       \/ TimedPredictionParams(Solo) \/ TimedIntegration(Solo)
       \/ TimedStreamWrite(Solo) \/ TimedOut(Solo) \/ Untimed(Count(Solo))
    /\ UNCHANGED << predvars, cellvars, waitvars, prvars, finvars, tpvars, prtvars >>

SpecTimed == InitTimed /\ [][NextTimed]_vars

\* ------------------------------------------------- the totals, by the step
\* Any number of workers; stages 1-8 of an image in one step, and the
\* finalisation one access to the shared totals at a time.  The chunks stay
\* where write_chunk leaves them: the sink is not run.  The options are at
\* their defaults.
InitTotals ==
    /\ cfg \in Configs
    /\ cfg.inputOk /\ cfg.geomOk /\ cfg.tolOk /\ cfg.cellOk /\ cfg.setupOk
    /\ cfg.streamOk /\ cfg.median_filter = 0 /\ cfg.noisefilter = 0
    /\ cfg.min_peaks = 0 /\ cfg.stream_nonhits = 1
    /\ InitRun /\ InitIdle /\ InitCellIdle /\ InitWaitIdle /\ InitPrIdle
    /\ InitTmIdle /\ InitTpIdle /\ InitPrtIdle
    /\ fin = NotFinalising

\* From the first line of process_image to the label out, or to a return
Pipeline(w) ==
    /\ pc[w] = "acquire"
    /\ \E st \in RunLocal(cfg, Here(w)), ret \in {0, 1} :
          IF st.pc = "return"
          THEN /\ Return(w)
               /\ UNCHANGED << fin, outOfOrder, lateWrite, writeFailed >>
          ELSE LET wrote == st.pc = "streamwrite" /\ ret = 0
               IN  /\ buffer' = IF wrote
                                THEN WriteChunk(buffer, assigned[w], st.img)
                                ELSE buffer
                   /\ image' = [ image EXCEPT
                                   ![w] = [ st.img EXCEPT !.written = wrote ] ]
                   /\ outOfOrder' =
                         (outOfOrder \/ (wrote /\ Pending(assigned[w]) # {}))
                   /\ lateWrite' = (lateWrite \/ (wrote /\ terminate))
                   /\ writeFailed' =
                         (writeFailed \/ (st.pc = "streamwrite" /\ ret # 0))
                   /\ pc' = [ pc EXCEPT ![w] = "out" ]
                   /\ fin' = [ fin EXCEPT !.reached = @ + 1 ]
                   /\ UNCHANGED assigned
    /\ UNCHANGED << cfg, mainvars, dispvars, totals, totals_lock >>

mutex_available_always(lock) == TRUE
\* pthread_mutex_lock returns once nobody holds the mutex
mutex_available(lock) == lock = 0

TotalsLock(w) ==
    /\ pc[w] = "out"
    /\ mutex_available(totals_lock)
    /\ totals_lock' = w
    /\ pc' = [ pc EXCEPT ![w] = "count" ]
    /\ UNCHANGED << cfg, mainvars, dispvars, assigned, image, totals, buffer,
                    outOfOrder, lateWrite, writeFailed, fin >>

\* n_processed++ and the rest: the totals are read ...
TotalsLoad(w) ==
    /\ pc[w] = "count"
    /\ fin' = [ fin EXCEPT !.reg[w] = totals ]
    /\ pc' = [ pc EXCEPT ![w] = "store" ]
    /\ UNCHANGED << cfg, mainvars, dispvars, assigned, image, totals,
                    totals_lock, buffer, outOfOrder, lateWrite, writeFailed >>

\* ... and written back; pthread_mutex_unlock, the frees and the return
TotalsStore(w) ==
    /\ pc[w] = "store"
    /\ \E good \in 0..image[w].n_crystals :
          totals' = Counted(fin.reg[w], image[w], good)
    /\ totals_lock' = 0
    /\ Return(w)
    /\ UNCHANGED << cfg, mainvars, dispvars, outOfOrder, lateWrite,
                    writeFailed, fin >>

NextTotals ==
    /\ \/ Main /\ UNCHANGED fin
       \/ \E w \in Workers : Dequeue(w) /\ UNCHANGED fin
       \/ SandboxReturn /\ UNCHANGED fin
       \/ \E w \in Workers : Pipeline(w)
       \/ \E w \in Workers : TotalsLock(w)
       \/ \E w \in Workers : TotalsLoad(w)
       \/ \E w \in Workers : TotalsStore(w)
    /\ UNCHANGED << predvars, cellvars, waitvars, prvars, tmvars, tpvars, prtvars >>

SpecTotals == InitTotals /\ [][NextTotals]_vars

\* ------------------------------------------------- one crystal's predictions
PredictToRes ==
    /\ \E kpred \in Kpreds : reflections' = predict_to_res(cell, kpred)
    /\ updated' = FALSE
    /\ UNCHANGED << cell, runvars, cellvars, waitvars, prvars, tmvars, finvars,
                    tpvars, prtvars >>

\* Refinement applies its parameters (cell, radius, wavelength) to the
\* crystal, then calls update_predictions
UpdatePredictions ==
    /\ reflections # NoReflections
    /\ \E c \in Cells, kpred \in Kpreds :
          /\ cell' = c
          /\ reflections' = update_predictions(c, kpred, reflections)
    /\ updated' = TRUE
    /\ UNCHANGED << runvars, cellvars, waitvars, prvars, tmvars, finvars,
                    tpvars, prtvars >>

\* One configuration in which everything loads, before main() has started
InitConfigured ==
    /\ cfg \in Configs
    /\ cfg.inputOk /\ cfg.geomOk /\ cfg.tolOk /\ cfg.cellOk /\ cfg.setupOk
    /\ cfg.streamOk /\ cfg.median_filter = 0 /\ cfg.noisefilter = 0
    /\ cfg.min_peaks = 0 /\ cfg.stream_nonhits = 1
    /\ InitRun

InitPredict ==
    /\ InitConfigured
    /\ InitCellIdle /\ InitWaitIdle /\ InitPrIdle /\ InitTmIdle /\ InitFinIdle
    /\ InitTpIdle /\ InitPrtIdle
    /\ cell \in Cells
    /\ reflections = NoReflections
    /\ updated = FALSE

NextPredict == PredictToRes \/ UpdatePredictions

SpecPredict == InitPredict /\ [][NextPredict]_vars

\* ------------------------------------------------------- cells at work
\* The cell files and reference cells: a and b of the same whole-number
\* length, the b axis upright or sheared along a, with every centering,
\* lattice type and unique axis a cell file can name
InputCells ==
    { [ ax |-> rtnl_mtx_from_intmat(
                  << << a, 0, 0 >>, << s, a, 0 >>, << 0, 0, 1 >> >>),
        cen |-> cen, lt |-> lt, ua |-> ua ] :
      a \in 1..MaxAxis, s \in 0..1,
      cen \in Centerings, lt \in LatticeTypes, ua \in UniqueAxes }

\* The matrices of tests/transformation_check.c (permutation, doubling,
\* shearing, "crazy", identity in two parts), the identity itself and a
\* matrix with two equal rows
Matrices ==
    { << << 0, 0, 1 >>, << 1, 0, 0 >>, << 0, 1, 0 >> >>,
      << << 2, 0, 0 >>, << 0, 1, 0 >>, << 0, 0, 1 >> >>,
      << << 1, 0, 0 >>, << 1, 1, 0 >>, << 0, 0, 1 >> >>,
      << << 1, 0, 0 >>, << 1, 1, 1 >>, << 0, 0, 1 >> >>,
      MatMul(<< << 0, 0, -1 >>, << 0, 1, 0 >>, << 1, 0, 0 >> >>,
             << << 0, 0, 1 >>, << 0, 1, 0 >>, << -1, 0, 0 >> >>),
      intmat_identity,
      << << 1, 0, 0 >>, << 1, 0, 0 >>, << 0, 0, 1 >> >> }

\* What the indexing library hands back: reciprocal bases of either hand
Lattices ==
    { [ n |-> << << p, 0, 0 >>, << s, 1, 0 >>, << 0, 0, 1 >> >>, d |-> 1 ] :
      p \in { -1, 1 }, s \in 0..1 }

InitCell ==
    /\ InitConfigured
    /\ InitIdle /\ InitWaitIdle /\ InitPrIdle /\ InitTmIdle /\ InitFinIdle
    /\ InitTpIdle /\ InitPrtIdle
    /\ uc0 \in InputCells
    /\ uc = uc0
    /\ tfn = NoOp

\* cell_transform_intmat(cell, tfn)
TransformIntmat ==
    /\ tfn.op = "none"
    /\ \E m \in Matrices :
          /\ uc' = cell_transform_intmat(uc, m)
          /\ tfn' = [ op |-> "transform", m |-> m, err |-> -1,
                       tols |-> << >> ]
    /\ UNCHANGED uc0

\* cell_transform_intmat_inverse(cnew, tfn)
TransformIntmatInverse ==
    /\ tfn.op = "transform"
    /\ uc # NullCell
    /\ uc' = cell_transform_intmat_inverse(uc, tfn.m)
    /\ tfn' = [ tfn EXCEPT !.op = "inverse" ]
    /\ UNCHANGED uc0

\* ct = uncenter_cell(cell, &C, &Ci)
UncenterCell ==
    /\ tfn.op = "none"
    /\ uc' = uncenter_cell(uc)
    /\ tfn' = [ op |-> "uncenter",
                m |-> IF centering_transformation(uc) = NoTransformation
                      THEN intmat_identity
                      ELSE centering_transformation(uc).C,
                err |-> -1, tols |-> << >> ]
    /\ UNCHANGED uc0

\* cback = cell_transform_intmat(ct, C)
Recenter ==
    /\ tfn.op = "uncenter"
    /\ uc # NullCell
    /\ uc' = cell_transform_intmat(uc, tfn.m)
    /\ tfn' = [ tfn EXCEPT !.op = "recenter" ]
    /\ UNCHANGED uc0

\* pinkIndexer, prepared with uc0 as its cell template, indexes a pattern
RunPinkIndexer ==
    /\ tfn.op = "none"
    /\ centering_transformation(uc0) # NoTransformation
    /\ \E lat \in Lattices :
          /\ uc' = run_pinkIndexer(uc0, lat)
          /\ tfn' = [ op |-> "indexed", m |-> intmat_identity,
                       err |-> -1, tols |-> << >> ]
    /\ UNCHANGED uc0

\* The indexing driver checks the candidate against the reference cell:
\* the cell match puts its axes in place of the candidate's, or the
\* candidate is rejected
CheckCell ==
    /\ tfn.op = "indexed"
    /\ uc # NullCell
    /\ \E c \in match_cell(uc, uc0) : uc' = c
    /\ tfn' = [ tfn EXCEPT !.op = "matched" ]
    /\ UNCHANGED uc0

\* An accepted candidate becomes a crystal of the image and is written out
EmitCrystal ==
    /\ tfn.op \in { "indexed", "matched" }
    /\ uc # NullCell
    /\ tfn' = [ tfn EXCEPT !.op = "emitted" ]
    /\ UNCHANGED << uc, uc0 >>

\* validate_cell(cell), on a cell as it was read or as a transformation
\* has left it
ValidateCell ==
    /\ tfn.op \in { "none", "transform" }
    /\ uc # NullCell
    /\ tfn' = [ tfn EXCEPT !.op = "validated", !.err = validate_cell(uc) ]
    /\ UNCHANGED << uc, uc0 >>

NextCell ==
    /\ \/ TransformIntmat \/ TransformIntmatInverse
       \/ UncenterCell \/ Recenter \/ ValidateCell
       \/ RunPinkIndexer \/ CheckCell \/ EmitCrystal
    /\ UNCHANGED << runvars, predvars, waitvars, prvars, tmvars, finvars,
                    tpvars, prtvars >>

SpecCell == InitCell /\ [][NextCell]_vars

\* ------------------------------------------------- the cell match, exactly
\* Primitive cells with their axes along x, y and z, of every length and
\* either hand, as candidate and as reference, and the tolerances
UprightCells ==
    { [ ax |-> rtnl_mtx_from_intmat(
                  << << h * a, 0, 0 >>, << 0, b, 0 >>, << 0, 0, c >> >>),
        cen |-> "P", lt |-> "L_ORTHORHOMBIC", ua |-> "*" ] :
      a \in 2..3, b \in 2..3, c \in 2..3, h \in { -1, 1 } }

\* Length tolerances in percent, the angle tolerance in degrees
Tolerances ==
    { << l, l, l, 1 >> : l \in { 0, 50 } }

InitMatch ==
    /\ InitConfigured
    /\ InitIdle /\ InitWaitIdle /\ InitPrIdle /\ InitTmIdle /\ InitFinIdle
    /\ InitTpIdle /\ InitPrtIdle
    /\ uc0 \in { c \in UprightCells : right_handed(c) }
    /\ uc \in UprightCells
    /\ tfn = NoOp

MatchCell ==
    /\ tfn.op = "none"
    /\ \E tols \in Tolerances :
          /\ uc' = match_cell_tols(uc, uc0, tols)
          /\ tfn' = [ op |-> "matched", m |-> uc.ax.n, err |-> -1,
                      tols |-> tols ]
    /\ UNCHANGED uc0

NextMatch ==
    /\ MatchCell
    /\ UNCHANGED << runvars, predvars, waitvars, prvars, tmvars, finvars,
                    tpvars, prtvars >>

SpecMatch == InitMatch /\ [][NextMatch]_vars

\* ------------------------------------------------------ waiting for a file
\* file_wait_open_read, one step for each system call it makes.  fw holds
\* the function's arguments and locals, the file's state, and the counts of
\* what has been done.
WaitValues == (-2)..MaxWait

\* file_wait_time--.  Values of MinTime and below stand for every int from
\* there down to INT_MIN, where the decrement overflows: the result is
\* then whatever the build makes of it.
MinTime == -MaxWait - 1
Decrement_kept(t) == { t }
Decrement(t) ==
    IF t > MinTime THEN { t - 1 } ELSE MinTime..MaxWait

\* The counts stop at one more than any run with a bounded wait can reach
Counted1(n) == IF n > MaxWait + 1 THEN n ELSE n + 1

InitWait ==
    /\ InitConfigured
    /\ InitIdle
    /\ InitCellIdle /\ InitPrIdle /\ InitTmIdle /\ InitFinIdle
    /\ InitTpIdle /\ InitPrtIdle
    /\ \E n \in WaitValues, e \in BOOLEAN :
          fw = [ NotWaiting EXCEPT !.wait_for_file = n, !.file_wait_time = n,
                                   !.at = "stat", !.exists = e,
                                   !.appeared = e ]

\* Somebody else writes the file
FileAppears ==
    /\ fw.at \notin { "idle", "found", "miss" }
    /\ ~fw.exists
    /\ fw' = [ fw EXCEPT !.exists = TRUE, !.appeared = TRUE ]

\* r = stat(image->filename, &statbuf) and what is decided on it
Stat ==
    /\ fw.at = "stat"
    /\ fw' = [ fw EXCEPT
                 !.stats = Counted1(@),
                 !.at = IF fw.exists THEN "open"
                        ELSE IF fw.wait_for_file # 0 /\ fw.file_wait_time # 0
                             THEN "sleep"
                             ELSE "miss" ]

\* sleep(1) and the countdown
Sleep ==
    /\ fw.at = "sleep"
    /\ \E t \in Decrement(fw.file_wait_time) :
          fw' = [ fw EXCEPT
                    !.sleeps = Counted1(@),
                    !.file_wait_time = IF fw.wait_for_file # -1 THEN t ELSE @,
                    !.at = "stat" ]

\* What a failed imagefile_open or imagefile_read leads to
RetryOrMiss ==
    IF fw.wait_for_file # 0 /\ fw.read_retry_done = 0
    THEN [ fw EXCEPT !.read_retry_done = 1, !.at = "sleep10" ]
    ELSE [ fw EXCEPT !.at = "miss" ]

\* imfile = imagefile_open(image->filename)
Open ==
    /\ fw.at = "open"
    /\ \/ fw' = [ fw EXCEPT !.at = "read" ]
       \/ fw' = RetryOrMiss

\* r = imagefile_read(imfile, image, image->event)
Read ==
    /\ fw.at = "read"
    /\ \/ fw' = [ fw EXCEPT !.at = "found" ]
       \/ fw' = RetryOrMiss

\* sleep(10) before the one retry
SleepLong ==
    /\ fw.at = "sleep10"
    /\ fw' = [ fw EXCEPT !.retries = Counted1(@), !.at = "open" ]

WaitStep ==
    /\ Stat \/ Sleep \/ Open \/ Read \/ SleepLong
    /\ UNCHANGED << runvars, predvars, cellvars, prvars, tmvars, finvars,
                    tpvars, prtvars >>

NextWait ==
    /\ \/ FileAppears
       \/ Stat \/ Sleep \/ Open \/ Read \/ SleepLong
    /\ UNCHANGED << runvars, predvars, cellvars, prvars, tmvars, finvars,
                    tpvars, prtvars >>

SpecWait == InitWait /\ [][NextWait]_vars

\* The worker process is scheduled as long as it has a step to take;
\* nobody has to write the file
SpecWaitFair == InitWait /\ [][NextWait]_vars /\ WF_vars(WaitStep)

\* --------------------------------------------------------- do_pr_refine
\* One crystal's refinement, a step for each part of do_pr_refine.  The
\* simplex is taken as it is used: after each iteration min->x is some
\* vector, and gsl_multimin_test_size says whether to go on.
Cell0 == << << 1, 0, 0 >>, << 0, 1, 0 >>, << 0, 0, 2 >> >>
Refl0 ==
    { [ hkl |-> << 1, 0, 0 >>, symm |-> << 1, 0, 0 >> ],
      [ hkl |-> << 2, 1, 0 >>, symm |-> << 2, 1, 0 >> ] }

Outcomes ==
    { [ ok |-> FALSE, res |-> 0 ] }
    \cup { [ ok |-> TRUE, res |-> r ] : r \in 0..MaxResidual }

EquivCells(amb) ==
    { Cell0 }
    \cup { reindex_cell(Cell0, amb, idx) : idx \in 0..(num_equivs(amb) - 1) }

References(amb) == [ EquivCells(amb) -> Outcomes ]

AmbGroups == { NoSymOpList, AmbTwofold, AmbFourfold }

\* 2e9 m^-1, and 4.9995e9 m^-1, which is one step below the clamp
InitialRadii == { 20000000, 49995000 }

Ang1Shifts == { -120, 0, 40, 101 }
Ang2Shifts == { -120, 0, 80 }
RShifts == { -14001, -4000, 0, 2 }
LShifts == { -3, 0 }
Vectors ==
    { << a1, a2, r, l >> :
        a1 \in Ang1Shifts, a2 \in Ang2Shifts, r \in RShifts, l \in LShifts }

Refining(R, amb, full) ==
    LET cr == [ cell |-> Cell0, refl |-> Refl0, R |-> R, lambda |-> 3,
                orient |-> << >> ]
    IN  [ NotRefining EXCEPT !.at = "reindex", !.cr = cr, !.cr0 = cr,
                             !.full = full, !.sym = SymP1, !.amb = amb ]

InitPr == InitConfigured /\ InitIdle /\ InitCellIdle /\ InitWaitIdle /\ InitTmIdle /\ InitFinIdle
    /\ InitTpIdle /\ InitPrtIdle

InitReindex ==
    /\ InitPr
    /\ \E amb \in AmbGroups : \E full \in References(amb) :
          pr = Refining(20000000, amb, full)

InitRefine ==
    /\ InitPr
    /\ \E amb \in { NoSymOpList, AmbTwofold }, R \in InitialRadii :
          \E full \in References(amb) : pr = Refining(R, amb, full)

\* try_reindex(cr, full, sym, amb)
TryReindex ==
    /\ pr.at = "reindex"
    /\ pr' = [ pr EXCEPT !.cr = try_reindex(pr.cr, pr.full, pr.sym, pr.amb),
                         !.at = "setup" ]

\* scale_one_crystal at the start, then setup_minimiser, which may fail to
\* allocate
SetupMinimiser ==
    /\ pr.at = "setup"
    /\ IF scale_one_crystal(pr.cr, pr.full) # 0
       THEN pr' = [ pr EXCEPT !.at = "done" ]
       ELSE \E min \in { "NULL", "min" } :
              IF min = "NULL"
              THEN pr' = [ pr EXCEPT !.at = "done" ]
              ELSE LET rv == << GPARAM_ANG1, GPARAM_ANG2, GPARAM_R,
                                GPARAM_WAVELENGTH, GPARAM_EOL >>
                   IN  pr' = [ pr EXCEPT
                         !.rv = rv,
                         !.initial = [ i \in 1..4 |->
                                         get_initial_param(pr.cr, rv[i]) ],
                         !.x = << 0, 0, 0, 0 >>,
                         !.n_iter = 0,
                         !.status = "GSL_CONTINUE",
                         !.at = "iterate" ]

\* What an evaluation of residual_f at v leaves of the crystal pv->cr, if
\* it were to work on the crystal itself
residual_f_in_place(v, pv) ==
    apply_parameters(v, pv.initial, pv.rv, pv.cr)

\* What an evaluation of residual_f at v leaves of the crystal pv->cr: the
\* parameters are applied to a copy of the crystal, with a copy of its image
\* and of its cell, and the copies are freed
residual_f_crystal(v, pv) == pv.cr

loop_condition_unbounded(status, n_iter) == status = "GSL_CONTINUE"

\* while ( status == GSL_CONTINUE && n_iter < 1000 )
loop_condition(status, n_iter) ==
    status = "GSL_CONTINUE" /\ n_iter < MaxIterations

\* One turn of the do loop
Iterate ==
    /\ pr.at = "iterate"
    /\ \/ pr' = [ pr EXCEPT !.n_iter = @ + 1, !.status = "GSL_FAILURE",
                            !.at = "end" ]
       \/ \E x \in Vectors, out \in Outcomes :
             LET pv == [ cr |-> pr.cr, initial |-> pr.initial,
                         rv |-> pr.rv ]
                 res == residual_f(x, pv, out)
                 after == residual_f_crystal(x, pv)
             IN  IF res.nan
                 THEN pr' = [ pr EXCEPT !.n_iter = @ + 1, !.x = x,
                                        !.status = "GSL_ENOPROG",
                                        !.cr = after, !.at = "end" ]
                 ELSE \E status \in { "GSL_SUCCESS", "GSL_CONTINUE" } :
                        pr' = [ pr EXCEPT
                          !.n_iter = @ + 1, !.x = x, !.status = status,
                          !.cr = after,
                          !.at = IF loop_condition(status, pr.n_iter + 1)
                                 THEN "iterate" ELSE "end" ]

\* After the loop: the final shifts are applied, or the result is dropped
ApplyFinal ==
    /\ pr.at = "end"
    /\ IF pr.status = "GSL_SUCCESS"
       THEN IF check_angle_shifts(pr.x, pr.initial, pr.rv) # 0
            THEN pr' = [ pr EXCEPT !.at = "done" ]
            ELSE pr' = [ pr EXCEPT
                   !.cr = apply_parameters(pr.x, pr.initial, pr.rv, pr.cr),
                   !.applied = TRUE,
                   !.at = "done" ]
       ELSE pr' = [ pr EXCEPT !.at = "done" ]

NextReindex ==
    /\ TryReindex
    /\ UNCHANGED << runvars, predvars, cellvars, waitvars, tmvars, finvars,
                    tpvars, prtvars >>

SpecReindex == InitReindex /\ [][NextReindex]_vars

NextRefine ==
    /\ TryReindex \/ SetupMinimiser \/ Iterate \/ ApplyFinal
    /\ UNCHANGED << runvars, predvars, cellvars, waitvars, tmvars, finvars,
                    tpvars, prtvars >>

SpecRefine == InitRefine /\ [][NextRefine]_vars

\* A crystal without indexing ambiguity
InitLoop ==
    /\ InitPr
    /\ \E R \in InitialRadii : \E full \in References(NoSymOpList) :
          pr = Refining(R, NoSymOpList, full)

\* do_pr_refine is one thread's code: it takes its next step
SpecRefineFair == InitLoop /\ [][NextRefine]_vars /\ WF_vars(NextRefine)

\* ----------------------------------------------- refine_all and its threads
\* tp holds refine_all's queue_args (n_crystals, n_started, n_done), the
\* pool run_threads makes for it (nthreads, max, its own count of tasks
\* given out, its lock: 0 or the thread that holds it), each thread's
\* position and task, and for the record how often each crystal was handed
\* out, whether crystals[] was read past its end, and whether run_threads
\* has returned.  thread-pool.c is not at hand: the pool is what
\* thread-pool.h says of it, get_task and final called non-reentrantly, at
\* most max tasks.
InitPool ==
    /\ InitConfigured /\ InitIdle /\ InitCellIdle /\ InitWaitIdle
    /\ InitPrIdle /\ InitTmIdle /\ InitFinIdle /\ InitPrtIdle
    /\ \E n \in 0..MaxRefined, j \in Threads : tp = refine_all(n, j)

\* task->crystal = qargs->crystals[qargs->n_started]; task->serial = ...
get_image_task(qargs) ==
    [ crystal |-> qargs.n_started, serial |-> qargs.n_started ]

get_image_started_same(n_started) == n_started

\* qargs->n_started++
get_image_started(n_started) == n_started + 1

\* A thread of the pool asks for a task: it takes the pool's lock, and gives
\* up when max tasks have been given out
PoolNext(t) ==
    /\ tp.th[t].at = "idle"
    /\ tp.lock = 0
    /\ IF tp.given >= tp.max
       THEN tp' = [ tp EXCEPT !.th[t].at = "exit" ]
       ELSE tp' = [ tp EXCEPT !.lock = t, !.th[t].at = "get_image" ]

\* get_image up to the task it fills in
GetImage(t) ==
    /\ tp.th[t].at = "get_image"
    /\ LET task == get_image_task(tp)
       IN  tp' = [ tp EXCEPT
             !.th[t].task = task,
             !.th[t].at = "started",
             !.oob = @ \/ task.crystal >= tp.n_crystals,
             !.handed = IF task.crystal \in CrystalIndices
                        THEN [ @ EXCEPT ![task.crystal] = @ + 1 ] ELSE @ ]

\* The rest of get_image; the pool counts the task and lets the lock go
GetImageReturn(t) ==
    /\ tp.th[t].at = "started"
    /\ tp' = [ tp EXCEPT !.n_started = get_image_started(@),
                         !.given = @ + 1,
                         !.lock = 0,
                         !.th[t].at = "work" ]

\* refine_image on the task, outside the lock
RefineImage(t) ==
    /\ tp.th[t].at = "work"
    /\ LET i == tp.th[t].task.crystal
       IN  tp' = [ tp EXCEPT
             !.refined = IF i \in CrystalIndices
                         THEN [ @ EXCEPT ![i] = 1 ] ELSE @,
             !.th[t].at = "worked" ]

\* The pool takes the lock for done_image, which reads n_done
DoneImage(t) ==
    /\ tp.th[t].at = "worked"
    /\ tp.lock = 0
    /\ tp' = [ tp EXCEPT !.lock = t, !.th[t].tmp = tp.n_done,
                         !.th[t].at = "done_image" ]

\* qa->n_done++ written back, free(task), and the lock let go
DoneImageReturn(t) ==
    /\ tp.th[t].at = "done_image"
    /\ tp' = [ tp EXCEPT !.n_done = tp.th[t].tmp + 1,
                         !.th[t].task = NoTask,
                         !.lock = 0,
                         !.th[t].at = "idle" ]

\* run_threads returns when every thread has given up
RunThreadsReturn ==
    /\ ~tp.returned
    /\ \A t \in Threads : tp.th[t].at \in { "exit", "off" }
    /\ tp' = [ tp EXCEPT !.returned = TRUE ]

NextPool ==
    /\ \/ \E t \in Threads :
            \/ PoolNext(t) \/ GetImage(t) \/ GetImageReturn(t)
            \/ RefineImage(t) \/ DoneImage(t) \/ DoneImageReturn(t)
       \/ RunThreadsReturn
    /\ UNCHANGED << runvars, predvars, cellvars, waitvars, prvars, tmvars,
                    finvars, prtvars >>

SpecPool == InitPool /\ [][NextPool]_vars

\* ------------------------------------------------------------ partialities
\* calculate_partialities on a crystal with one reflection.  Lengths in
\* reciprocal space and wavenumbers are whole numbers of one unit (about
\* 2.5e5 m^-1 for a wavenumber of 1e10 m^-1 at 40000 units); a partiality
\* is a whole number of hundredths.  prt holds the crystal (reciprocal axis
\* a*, signed profile radius, mosaicity), its image (serial, wavenumber
\* 1/lambda, spectrum), the reflection, and where the call has got to.
\* spectrum.c is not at hand: a spectrum is a density that rises linearly
\* from the ends of its range to its centre.
PartialityModels ==
    { "PMODEL_UNITY", "PMODEL_XSPHERE", "PMODEL_OFFSET", "PMODEL_RANDOM" }

RECURSIVE IsqrtBetween(_, _, _)
IsqrtBetween(n, lo, hi) ==
    IF lo >= hi THEN lo
    ELSE LET mid == (lo + hi + 1) \div 2
         IN  IF mid * mid <= n THEN IsqrtBetween(n, mid, hi)
             ELSE IsqrtBetween(n, lo, mid - 1)

\* sqrt, to the unit below (of numbers below 2^31)
Isqrt(n) == IsqrtBetween(n, 0, 46340)

spectrum_get_range(s) == << s.kcen - s.w, s.kcen + s.w >>

\* 10 at the centre
spectrum_get_density_at_k(s, k) ==
    LET off == Abs(k - s.kcen)
    IN  IF off >= s.w THEN 0 ELSE ((s.w - off) * 10) \div s.w

\* The sum of E*P over the samples from i on; P = 4p(1-p) with
\* p = (s + R)/(2R) is (R*R - s*s)/(R*R), and the sum is kept times R*R
RECURSIVE Samples(_, _, _, _, _, _, _)
Samples(i, q2, zl, R, spectrum, kstart, kfinis) ==
    IF i >= SAMPLES THEN 0
    ELSE LET kp == kstart + (i * (kfinis - kstart)) \div SAMPLES
             s == Isqrt(q2 + kp * kp + 2 * zl * kp) - kp
             E == spectrum_get_density_at_k(spectrum, kp)
         IN  E * (R * R - s * s)
             + Samples(i + 1, q2, zl, R, spectrum, kstart, kfinis)

\* do_integral: whether it gets past its asserts, and total, times
\* R*R*SAMPLES and in thousands
do_integral(q2, zl, R, spectrum) ==
    LET k0 == IF zl + R >= 0 THEN Infinity
              ELSE (q2 - R * R) \div (2 * (-(zl + R)))
        k1 == IF zl - R >= 0 THEN Infinity
              ELSE (q2 - R * R) \div (2 * (R - zl))
        kmin == spectrum_get_range(spectrum)[1]
        kmax == spectrum_get_range(spectrum)[2]
        asserts == /\ R * R < q2 /\ R > 0
                   /\ (k0 = Infinity /\ k1 = Infinity) \/ k0 > k1
                   /\ kmax > kmin
        none == \/ kmin < k1 /\ kmax < k1
                \/ kmin >= k1 /\ kmin >= k0
        kstart0 == IF kmin < k1 THEN k1 ELSE kmin
        kfinis0 == IF kmax < k0 THEN kmax ELSE k0
        kstart == IF kstart0 < 0 THEN kmin ELSE kstart0
        kfinis == IF kfinis0 < 0 THEN kmax ELSE kfinis0
    IN  IF ~asserts THEN [ ok |-> FALSE, nan |-> FALSE, total |-> 0 ]
        ELSE IF none THEN [ ok |-> TRUE, nan |-> FALSE, total |-> 0 ]
        ELSE IF kstart = Infinity \/ kfinis = Infinity
        THEN [ ok |-> TRUE, nan |-> TRUE, total |-> 0 ]
        ELSE [ ok |-> TRUE, nan |-> FALSE,
               total |-> ((kfinis - kstart)
                          * Samples(0, q2, zl, R, spectrum, kstart, kfinis))
                         \div 1000 ]

\* total/norm as a double, in hundredths
Quotient(total, norm) ==
    IF total.nan \/ norm.nan \/ (total.total = 0 /\ norm.total = 0)
    THEN NotANumber
    ELSE IF norm.total = 0 THEN Infinity
    ELSE (100 * total.total) \div norm.total

\* h a* + k b* + l c*, for the reflections (h, 0, 0)
ReciprocalPoint(cr, refl) ==
    [ xl |-> refl.h * cr.asx, yl |-> 0, zl |-> refl.h * cr.asz ]

ProfileRadius(cr, q2) == Abs(cr.R) + (cr.m * Isqrt(q2)) \div 1000

\* What a run of the loop body does to the reflection: nothing when an
\* assert in do_integral stops the program, the quotient otherwise, and
\* then the assert on it
ginn_spectrum_partialities(cr, refl) ==
    LET q == ReciprocalPoint(cr, refl)
        q2 == q.xl * q.xl + q.yl * q.yl + q.zl * q.zl
        R == ProfileRadius(cr, q2)
        total == do_integral(q2, q.zl, R, cr.image.spectrum)
        norm == do_integral(q2, -(q2 \div (2 * cr.image.k)), R,
                            cr.image.spectrum)
    IN  IF ~total.ok \/ ~norm.ok
        THEN [ refl |-> refl, aborted |-> TRUE ]
        ELSE [ refl |-> [ refl EXCEPT !.partiality = Quotient(total, norm),
                                      !.lorentz = 100, !.set = TRUE ],
               aborted |-> total.nan \/ norm.nan
                           \/ ~(total.total <= 2 * norm.total) ]

\* exp(-u) for u = n/d >= 0, in hundredths: u is taken in tenths, and the
\* value is the reciprocal of the first terms of the series of exp(u)
ExpMinus(n, d) ==
    LET u == (10 * n) \div d
    IN  (100 * 6000) \div (6000 + 600 * u + 30 * u * u + u * u * u)

\* exp(-(t*t)/(R*R)); 0/0 for a reflection on the sphere and no radius
ewald_offset_partialities(cr, refl) ==
    LET q == ReciprocalPoint(cr, refl)
        q2 == q.xl * q.xl + q.yl * q.yl + q.zl * q.zl
        R == ProfileRadius(cr, q2)
        t == refl.exerr
        p == IF R = 0 THEN (IF t = 0 THEN NotANumber ELSE 0)
             ELSE ExpMinus(t * t, R * R)
    IN  [ refl |-> [ refl EXCEPT !.partiality = p, !.lorentz = 100,
                                 !.set = TRUE ],
          aborted |-> FALSE ]

set_unity_partialities(cr, refl) ==
    [ refl |-> [ refl EXCEPT !.partiality = 100, !.lorentz = 100,
                             !.set = TRUE ],
      aborted |-> FALSE ]

\* gsl_rng_uniform gives a number in [0, 1)
Uniform == 0..99

set_random_partialities(cr, refl, p) ==
    [ refl |-> [ refl EXCEPT !.partiality = p, !.lorentz = 100,
                             !.set = TRUE ],
      aborted |-> FALSE ]

calculate_partialities(cr, refl, pmodel, p) ==
    CASE pmodel = "PMODEL_UNITY" -> set_unity_partialities(cr, refl)
      [] pmodel = "PMODEL_XSPHERE" -> ginn_spectrum_partialities(cr, refl)
      [] pmodel = "PMODEL_OFFSET" -> ewald_offset_partialities(cr, refl)
      [] pmodel = "PMODEL_RANDOM" -> set_random_partialities(cr, refl, p)

\* Spectra of one per cent half width; the image's wavenumber is at the
\* centre of its spectrum, or has moved from it (a spectrum read from a
\* file, a wavelength that was refined)
Spectra == { [ kcen |-> 40000, w |-> 400 ] }
Wavenumbers == { 39200, 39600, 40000, 41000 }
AxisTilts == { -840, -820, -800, -780 }
Radii == { -40, 40 }
ExcitationErrors == { -60, 0, 20 }

WithPartialities ==
    { [ at |-> "predicted", pmodel |-> pmodel,
        cr |-> [ asx |-> 8000, asz |-> z, R |-> R, m |-> 0,
                 image |-> [ serial |-> 0, k |-> k, spectrum |-> s ] ],
        refl |-> [ h |-> 1, exerr |-> t, partiality |-> 0, lorentz |-> 0,
                   set |-> FALSE ] ] :
      pmodel \in PartialityModels, z \in AxisTilts, R \in Radii,
      k \in Wavenumbers, s \in Spectra, t \in ExcitationErrors }

InitPartial ==
    /\ InitConfigured /\ InitIdle /\ InitCellIdle /\ InitWaitIdle
    /\ InitPrIdle /\ InitTmIdle /\ InitFinIdle /\ InitTpIdle
    /\ prt \in WithPartialities

CalculatePartialities ==
    /\ prt.at = "predicted"
    /\ \E p \in IF prt.pmodel = "PMODEL_RANDOM" THEN { 0, 50, 99 } ELSE { 0 } :
         \E r \in { calculate_partialities(prt.cr, prt.refl, prt.pmodel, p) } :
            prt' = [ prt EXCEPT !.refl = r.refl,
                              !.at = IF r.aborted THEN "aborted"
                                     ELSE "done" ]

NextPartial ==
    /\ CalculatePartialities
    /\ UNCHANGED << runvars, predvars, cellvars, waitvars, prvars, tmvars,
                    finvars, tpvars >>

SpecPartial == InitPartial /\ [][NextPartial]_vars

\* ======================================================== the properties
SerialLines(s) == SelectSeq(s, LAMBDA ln : ln.t = "serial")

ConfigOk ==
    /\ cfg.inputOk /\ cfg.geomOk /\ cfg.tolOk /\ cfg.cellOk
    /\ cfg.setupOk /\ cfg.streamOk

C2_IntegrationReadsSnapshot ==
    \A w \in Workers :
        /\ image[w].intdata # NoData => image[w].intdata = RawData
        /\ pc[w] \in { "hitcheck", "indexing", "predparams", "integration" }
              => image[w].dp = RawData

\* Both filters on, a crystal found, integration done
C2_Witness ==
    \E w \in Workers :
        /\ cfg.median_filter = 1 /\ cfg.noisefilter = 1
        /\ pc[w] = "streamwrite"
        /\ image[w].n_crystals > 0
        /\ image[w].intdata = RawData

\* C3: when fewer than min_peaks peaks were found, the chunk written for the
\* image has no crystal block: the image is a non-hit, and neither indexing
\* nor integration has run on it.
C3_NonHitChunkHasNoCrystals ==
    \A w \in Workers :
        (image[w].written /\ image[w].npeaks < cfg.min_peaks)
        => /\ \A i \in 1..Len(buffer[assigned[w]]) :
                  buffer[assigned[w]][i].t # "crystal"
           /\ image[w].hit = 0
           /\ image[w].n_crystals = 0
           /\ image[w].indexed_by = INDEXING_NONE
           /\ image[w].intdata = NoData

C3_Witness ==
    \E w \in Workers :
        /\ image[w].written
        /\ image[w].npeaks < cfg.min_peaks
        /\ buffer[assigned[w]] = ChunkLines(image[w])

\* The line types that may follow a line of type t inside the stream
Follows(t) ==
    CASE t = "begin" -> { "serial" }
      [] t = "serial" -> { "indexed_by" }
      [] t = "indexed_by" -> { "crystal", "end" }
      [] t = "crystal" -> { "crystal", "end" }
      [] t = "end" -> { "begin" }
      [] OTHER -> {}

C6_LoadFailureCounted ==
    [][ \A w \in Workers :
          (pc[w] = "acquire" /\ pc'[w] = "idle")
          => totals'.n_processed = totals.n_processed + 1 ]_vars

\* C7: a failed write of a chunk is fatal: terminate is set from then on and
\* the run does not end with the exit code of a good run.
C7_WriteFailureFatal ==
    writeFailed => (terminate /\ exit_code # 0)

\* C8: with a detector geometry, a tolerance or a cell file that cannot be
\* taken, main() never gets to the sandbox: no image is handed out, no worker
\* runs, nothing is counted or written, and the program ends with an error.
C8_ConfigErrorBeforeDispatch ==
    ~(cfg.geomOk /\ cfg.tolOk /\ cfg.cellOk)
    => /\ mainpc \notin { "sandbox", "cleanup" }
       /\ serial = SerialStart
       /\ AllIdle
       /\ totals.n_processed = 0
       /\ stream = << >>
       /\ sandbox_r = 0
       /\ mainpc = "exit" => exit_code = 1

\* The arguments were fine, the geometry was not, and main() has returned
C8_Witness ==
    /\ cfg.inputOk /\ ~cfg.geomOk
    /\ mainpc = "exit"
    /\ exit_code = 1

\* C9: the exit code is 0 exactly when the run succeeded (no configuration
\* error, no failed write) with at least one image processed.
C9_ExitCode ==
    mainpc = "exit"
    => (exit_code = 0 <=>
           (ConfigOk /\ ~writeFailed /\ totals.n_processed >= 1))

WithinPanel(r) ==
    LET p == Detector[r.panel + 1]
    IN  /\ r.fs.den > 0 /\ r.ss.den > 0
        /\ 0 <= r.fs.num /\ r.fs.num < p.w * r.fs.den
        /\ 0 <= r.ss.num /\ r.ss.num < p.h * r.ss.den

Listed == { hkl \in Hkls : reflections[hkl] # NoRefl }

\* C10 as the specification states it: every reflection of the list, fresh
\* or updated, lies within the rectangle of its panel.
C10_AllWithinPanel ==
    \A hkl \in Listed : WithinPanel(reflections[hkl])

\* C10: a freshly predicted reflection lies within the rectangle of the
\* panel it is assigned to.  An update keeps every reflection on the list
\* and on its panel, and gives it the newly calculated position whether or
\* not that position is still on the panel.
C10_FreshWithinPanel ==
    /\ [](~updated => \A hkl \in Listed : WithinPanel(reflections[hkl]))
    /\ [][ updated' =>
             \A hkl \in Hkls :
                reflections'[hkl].panel = reflections[hkl].panel ]_vars

\* A fresh list with a reflection on the last pixel column of its panel
C10_Witness ==
    /\ ~updated
    /\ \E hkl \in Listed :
          LET r == reflections[hkl]
          IN  r.fs.num + r.fs.den >= Detector[r.panel + 1].w * r.fs.den

\* C11: the cell of every crystal that is written out is right-handed (the
\* triple product of its direct axes is positive) and passes the
\* sensible-parameters check, whether it comes straight from the indexer or
\* has had its axes replaced by the cell match against the reference.
C11_EmittedCellValid ==
    tfn.op = "emitted"
    => /\ Det3(uc.ax.n[1], uc.ax.n[2], uc.ax.n[3]) > 0
       /\ cell_is_sensible(uc)

\* A crystal written out with an I-centered reference cell, whose axes are
\* not those the indexer gave it: the cell match has replaced them
C11_Witness ==
    /\ tfn.op = "emitted"
    /\ uc0.cen = "I"
    /\ \A lat \in Lattices : uc # run_pinkIndexer(uc0, lat)

\* C12: for wait_for_file = n >= 0 and a file that never appears, the wait
\* loop sleeps one second at most n times, looks for the file once before
\* the first sleep and once after each, and reports the miss after the
\* n-th; with n = 0 it reports the miss at once, without sleeping.
C12_AtMostNRetries ==
    (fw.at # "idle" /\ fw.wait_for_file >= 0 /\ ~fw.appeared)
    => /\ fw.sleeps <= fw.wait_for_file
       /\ fw.stats <= fw.sleeps + 1
       /\ fw.retries = 0
       /\ fw.at = "miss" => /\ fw.sleeps = fw.wait_for_file
                            /\ fw.stats = fw.wait_for_file + 1

\* The miss is reported after the full wait for a file that never came
C12_Witness ==
    /\ fw.at = "miss"
    /\ ~fw.appeared
    /\ fw.wait_for_file = MaxWait
    /\ fw.sleeps = MaxWait

\* C13: unless wait_for_file is -1, file_wait_open_read returns, with the
\* image or with a miss, whether or not the file appears and whether or not
\* opening and reading it work.
C13_ReturnsUnlessForever ==
    [](fw.at # "idle" /\ fw.wait_for_file # -1
         => <>(fw.at \in { "found", "miss" }))

\* C14: the identity transformation returns an equal cell: the same nine
\* Cartesian components, centering, lattice type and unique axis.
C14_IdentityReturnsEqualCell ==
    (tfn.op = "transform" /\ tfn.m = intmat_identity)
    => /\ uc.ax = uc0.ax
       /\ uc.cen = uc0.cen
       /\ uc.lt = uc0.lt
       /\ uc.ua = uc0.ua

\* |x - x0| is at most a millionth of |x0|, x and x0 given as fractions
WithinMillionth(xn, xd, x0n, x0d) ==
    Abs(xn * x0d - x0n * xd) * 1000000 <= Abs(x0n) * xd

\* C15: a transformation by an invertible integer matrix followed by the
\* inverse transformation gives back the nine Cartesian components to
\* within one part in a million.
C15_InverseRecovers ==
    (tfn.op = "inverse" /\ Det3(tfn.m[1], tfn.m[2], tfn.m[3]) # 0)
    => /\ uc # NullCell
       /\ \A i \in Idx3, j \in Idx3 :
             WithinMillionth(uc.ax.n[i][j], uc.ax.d,
                             uc0.ax.n[i][j], uc0.ax.d)

\* A sheared cell has been through the "crazy" matrix and back
C15_Witness ==
    /\ tfn.op = "inverse"
    /\ tfn.m = << << 1, 0, 0 >>, << 1, 1, 1 >>, << 0, 0, 1 >> >>
    /\ uc0.ax.n[2][1] = 1
    /\ uc # NullCell

Supported(c) ==
    \/ c.cen \in { "P", "R", "A", "B", "C", "I", "F" }
    \/ c.cen = "H" /\ c.lt = "L_HEXAGONAL" /\ c.ua = "c"

\* C16: for every supported centering uncenter_cell returns a primitive
\* cell and a matrix C; the matrix it uncentered with is the exact inverse
\* of C, and C applied to the primitive cell gives back the nine Cartesian
\* components of the centered cell.
C16_UncenterRecenter ==
    /\ (tfn.op = "uncenter" /\ Supported(uc0))
       => /\ uc # NullCell
          /\ uc.cen \in { "P", "R" }
          /\ tfn.m = centering_transformation(uc0).C
          /\ MatMul(centering_transformation(uc0).Ci.n, tfn.m)
                = [ i \in Idx3 |-> [ j \in Idx3 |->
                      centering_transformation(uc0).Ci.d
                          * intmat_identity[i][j] ] ]
    /\ tfn.op = "recenter" => uc.ax = uc0.ax

\* An H-centered hexagonal cell has been uncentered and centered again
C16_Witness ==
    /\ tfn.op = "recenter"
    /\ uc0.cen = "H"
    /\ uc.ax = uc0.ax

\* The reflection hkl of the centered cell c, indexed on the axes of the
\* primitive cell p: the three numerators over the one denominator
PrimitiveIndices(c, p, hkl) ==
    LET r == cell_get_reciprocal(c)
        pt == [ x \in Idx3 |-> hkl[1] * r.n[1][x] + hkl[2] * r.n[2][x]
                               + hkl[3] * r.n[3][x] ]
    IN  [ n |-> [ i \in Idx3 |-> Dot(p.ax.n[i], pt) ], d |-> p.ax.d * r.d ]

WholeIndices(q) == \A i \in Idx3 : q.n[i] % q.d = 0

\* C17: a reflection of a centered cell is allowed by forbidden_reflection
\* exactly when its reciprocal-lattice point has whole-number indices on
\* the primitive cell uncenter_cell makes of the cell, so both cells have
\* the same reciprocal-lattice points.
C17_ForbiddenMatchesCentering ==
    (tfn.op = "uncenter" /\ uc # NullCell)
    => \A hkl \in Hkls :
          ~forbidden_reflection(uc0, hkl[1], hkl[2], hkl[3])
          <=> WholeIndices(PrimitiveIndices(uc0, uc, hkl))

\* C18: prediction refinement rejects every step whose profile radius has a
\* magnitude above 5e9 m^-1 or whose wavelength is not positive: a vector
\* the loop has accepted, and the radius and wavelength finally applied to
\* the crystal, are inside both clamps.
C18_AppliedWithinClamps ==
    /\ pr.applied => (Abs(pr.cr.R) <= MaxRadius /\ pr.cr.lambda > 0)
    /\ (pr.at \in { "iterate", "end" }
        /\ pr.status \in { "GSL_SUCCESS", "GSL_CONTINUE" })
       => /\ Abs(get_actual_val(pr.x, pr.initial, pr.rv, 2)) <= MaxRadius
          /\ get_actual_val(pr.x, pr.initial, pr.rv, 3) > 0

\* A crystal that started one step below the radius clamp has been through
\* all iterations and has had a radius other than its first one applied
C18_Witness ==
    /\ pr.applied
    /\ pr.n_iter = MaxIterations
    /\ pr.cr0.R + RadiusStep = MaxRadius
    /\ pr.cr.R # pr.cr0.R

\* The sum of the magnitudes of the two rotation angles of min->x
TotalRotation ==
    Abs(get_actual_val(pr.x, pr.initial, pr.rv, 0))
    + Abs(get_actual_val(pr.x, pr.initial, pr.rv, 1))

\* C19: a result of the simplex whose total rotation, the sum of the
\* magnitudes of the two refined angles, is above 5 degrees is not applied:
\* the crystal's orientation is the one it had before the simplex.
C19_LargeRotationNotApplied ==
    (pr.at = "done" /\ pr.status = "GSL_SUCCESS"
     /\ TotalRotation > MaxRotation)
    => (~pr.applied /\ pr.cr.orient = pr.cr0.orient)

\* The smallest residual among the equivalents of the ambiguity group
BestResidual ==
    CHOOSE r \in { pr.full[c].res : c \in DOMAIN pr.full } :
        \A c \in DOMAIN pr.full : r <= pr.full[c].res

\* C20: with an ambiguity group supplied (and every equivalent scalable to
\* the reference), after try_reindex the crystal holds the cell and the
\* reflection list of one equivalent of what it came with, that equivalent
\* has the smallest residual of all, and it is the original indexing if no
\* equivalent is strictly better than the original.
C20_BestReindexingKept ==
    (pr.at = "setup" /\ pr.amb # NoSymOpList
     /\ \A c \in DOMAIN pr.full : pr.full[c].ok)
    => /\ \E idx \in 0..(num_equivs(pr.amb) - 1) :
             /\ pr.cr.cell = reindex_cell(pr.cr0.cell, pr.amb, idx)
             /\ pr.cr.refl = reindex_reflections(pr.cr0.refl, pr.amb,
                                                 pr.sym, idx)
       /\ pr.full[pr.cr.cell].res = BestResidual
       /\ BestResidual >= pr.full[pr.cr0.cell].res
          => (pr.cr.cell = pr.cr0.cell /\ pr.cr.refl = pr.cr0.refl)

\* Entered(s): this step is the worker going into stage s
Entered(s) == pc[Solo] = s /\ pc'[Solo] # s

Switched(acc) ==
    tm.taccs # NoAccounts => tm'.taccs.cur_acc = acc

StageAccount ==
    [ s \in { "filter", "resrange", "peaksearch", "indexing", "predparams",
              "integration", "streamwrite", "out" } |->
        CASE s = "filter" -> "TACC_FILTER"
          [] s = "resrange" -> "TACC_RESRANGE"
          [] s = "peaksearch" -> "TACC_PEAKSEARCH"
          [] s = "indexing" -> "TACC_INDEXING"
          [] s = "predparams" -> "TACC_PREDPARAMS"
          [] s = "integration" -> "TACC_INTEGRATION"
          [] s = "streamwrite" -> "TACC_WRITESTREAM"
          [] s = "out" -> "TACC_TOTALS" ]

FileAccounts == { "TACC_WAITFILE", "TACC_HDF5OPEN", "TACC_HDF5READ" }

\* C21 as stated: every stage of the pipeline (acquire, filter, resolution
\* mask, peak search, indexing, restore, refinement and integration, stream
\* write), when entered, switches the worker's time account to that stage
\* and advances the worker's heartbeat.
C21_EveryStageSwitchesAndPings ==
    [][ /\ \A s \in { "filter", "resrange", "peaksearch", "indexing",
                      "predparams", "streamwrite" } :
              Entered(s) => Switched(StageAccount[s]) /\ tm'.pings > tm.pings
        /\ Entered("acquire") =>
              /\ tm.taccs # NoAccounts => tm'.taccs.cur_acc \in FileAccounts
              /\ tm'.pings > tm.pings
        /\ Entered("restore") =>
              tm'.taccs.cur_acc # tm.taccs.cur_acc /\ tm'.pings > tm.pings
      ]_vars

\* C21, as the code has it: filter, resolution mask, peak search,
\* integration, stream write and the finalisation switch the account to
\* their own (when there are accounts) and advance the heartbeat by one;
\* indexing and the prediction parameters switch the account, and the
\* heartbeat does not go back; putting the image data back and the hit test
\* touch neither the accounts nor the heartbeat; acquisition leaves the
\* account alone or at one of the file accounts, and never takes the
\* heartbeat back.
C21_StageEntry ==
    [][ /\ \A s \in { "filter", "resrange", "peaksearch", "integration",
                      "streamwrite", "out" } :
              Entered(s) =>
                 Switched(StageAccount[s]) /\ tm'.pings = tm.pings + 1
        /\ Entered("indexing") =>
              Switched("TACC_INDEXING") /\ tm'.pings \in { tm.pings,
                                                           tm.pings + 1 }
        /\ Entered("predparams") =>
              Switched("TACC_PREDPARAMS") /\ tm'.pings = tm.pings
        /\ \A s \in { "restore", "hitcheck", "count" } :
              Entered(s) => tm' = tm
        /\ Entered("acquire") =>
              /\ tm'.taccs.cur_acc \in FileAccounts \cup { tm.taccs.cur_acc }
              /\ tm'.pings >= tm.pings
      ]_vars

\* The worker is about to finalise an image it has written, with the clock
\* on the stream-write account and the heartbeat moved by every stage
C21_Witness ==
    /\ pc[Solo] = "out"
    /\ image[Solo].written /\ image[Solo].n_crystals > 0
    /\ tm.taccs # NoAccounts /\ tm.taccs.cur_acc = "TACC_WRITESTREAM"
    /\ tm.last_task = "stream write"
    /\ tm.pings >= 8

\* A step of process_image and its caller with no clock anywhere
UntimedStep ==
    \/ Main
    \/ Dequeue(Solo) \/ SandboxReturn
    \/ Acquire(Solo) \/ Filter(Solo) \/ ResolutionRange(Solo)
    \/ PeakSearch(Solo) \/ Restore(Solo) \/ HitCheck(Solo)
    \/ Indexing(Solo) \/ PredictionParams(Solo) \/ Integration(Solo)
    \/ StreamWrite(Solo) \/ Out(Solo) \/ Count(Solo)

NonHitDone(w) ==
    pc[w] \in { "out", "count" } /\ image[w].npeaks < cfg.min_peaks

Finalising == { w \in Workers : pc[w] \in { "out", "count", "store" } }

\* C22: the totals are touched only by the worker that holds the totals
\* mutex, and no increment is lost: the processed count is the number of
\* images that have got to the finalisation less those still in it, so
\* after k images have gone through it the count has grown by exactly k.
C22_NoLostUpdate ==
    /\ \A w \in Workers : pc[w] \in { "count", "store" } => totals_lock = w
    /\ \A w \in Workers : pc[w] = "store" => fin.reg[w] = totals
    /\ totals.n_processed + Cardinality(Finalising) = fin.reached

\* One worker is between its read and its write of the totals while
\* another, with an image of its own, waits for the mutex
C22_Witness ==
    /\ fin.reached >= 2
    /\ \E w, v \in Workers :
          pc[w] = "store" /\ pc[v] = "out" /\ totals_lock = w

\* Monoclinic A, B or C centering on the unique axis
CenteringOnUniqueAxis(c) ==
    /\ c.lt = "L_MONOCLINIC"
    /\ \/ c.cen = "A" /\ c.ua = "a"
       \/ c.cen = "B" /\ c.ua = "b"
       \/ c.cen = "C" /\ c.ua = "c"

\* C26: validate_cell returns 2 whenever the parameters are not sensible or
\* a monoclinic A, B or C centering is on the unique axis, whatever the
\* other checks say; otherwise 1 if the cell is left-handed or not a
\* conventional Bravais lattice; otherwise 0.
C26_SeriousProblemGivesTwo ==
    tfn.op = "validated"
    => tfn.err = IF ~cell_is_sensible(uc) \/ CenteringOnUniqueAxis(uc) THEN 2
                 ELSE IF ~right_handed(uc) \/ ~bravais_lattice(uc) THEN 1
                 ELSE 0

\* The reciprocal axes of the reference and of the candidate that was
\* matched, and the candidate axes: each reciprocal axis and its opposite
RefAxes == cell_get_reciprocal(uncenter_cell(uc0))
CandAxes ==
    cell_get_reciprocal([ ax |-> rtnl_mtx_from_intmat(tfn.m), cen |-> "P",
                          lt |-> "L_ORTHORHOMBIC", ua |-> "*" ])
AxisChoices(cand) ==
    { [ x \in Idx3 |-> s * cand.n[i][x] ] : i \in Idx3, s \in { -1, 1 } }

\* The error of one length, over the denominator of both cells
LengthError(ref, cand, i, v) ==
    Abs(modulus(ref.n[i]) * cand.d - modulus(v) * ref.d)

TotalError(ref, cand, q) ==
    LengthError(ref, cand, 1, q[1]) + LengthError(ref, cand, 2, q[2])
    + LengthError(ref, cand, 3, q[3])

\* The combinations whose lengths and angles agree with the reference
Agreeing(ref, cand, tols) ==
    { q \in AxisChoices(cand) \X AxisChoices(cand) \X AxisChoices(cand) :
        /\ \A i \in Idx3 :
              100 * LengthError(ref, cand, i, q[i])
                 <= modulus(ref.n[i]) * cand.d * tols[i]
        /\ \A i \in Idx3 : \A j \in Idx3 :
              i < j => Dot(q[i], q[j]) = 0 }

\* The errors of the agreeing combinations
Errors ==
    UNION { UNION { { TotalError(ref, cand, q) :
                      q \in Agreeing(ref, cand, tfn.tols) } :
                    ref \in { RefAxes } } :
            cand \in { CandAxes } }

C29_RefinementTerminates ==
    /\ [](pr.n_iter <= MaxIterations)
    /\ [](pr.at = "iterate" => pr.status = "GSL_CONTINUE")
    /\ <>(pr.at = "done")

\* A refinement that converged in its last permitted turn has returned
C29_Witness ==
    /\ pr.at = "done" /\ pr.status = "GSL_SUCCESS"
    /\ pr.n_iter = MaxIterations

Within(places) == { t \in Threads : tp.th[t].at \in places }

\* C30: in refine_all, for every number of threads and every interleaving,
\* at most one thread is inside get_image and at most one inside done_image
\* at a time, crystals[] is never read at an index of n_crystals or above,
\* no crystal is handed out twice, and when run_threads has returned every
\* crystal has been handed out once and n_started = n_done = n_crystals.
C30_EachCrystalOnce ==
    /\ Cardinality(Within({ "get_image", "started" })) <= 1
    /\ Cardinality(Within({ "done_image" })) <= 1
    /\ ~tp.oob
    /\ \A i \in CrystalIndices : tp.handed[i] <= 1
    /\ tp.returned =>
         /\ tp.n_started = tp.n_crystals /\ tp.n_done = tp.n_crystals
         /\ \A i \in CrystalIndices :
              tp.handed[i] = IF i < tp.n_crystals THEN 1 ELSE 0

\* Three crystals were refined by more than one thread, and run_threads
\* has returned
C30_Witness ==
    /\ tp.returned /\ tp.n_crystals = MaxRefined /\ tp.nthreads >= 2
    /\ tp.n_started = MaxRefined
    /\ \A i \in CrystalIndices : tp.refined[i] = 1

\* C23: every partiality that calculate_partialities assigns to a
\* reflection, under any of the four models, is at least 0 and at most 1
\* (100 hundredths).
C23_PartialityInUnitInterval ==
    prt.refl.set => prt.refl.partiality >= 0 /\ prt.refl.partiality <= 100

====
